---- MODULE Spec2Model ----
(***************************************************************************)
(* State-machine model of the aily dashboard control plane:                *)
(*   - message ingestion and deduplication (services/message_service.py)   *)
(*   - the session reconciler              (workers/session_poller.py)     *)
(*   - the command queue                   (services/usage_service.py)     *)
(*   - the event bus and websocket loop    (services/event_bus.py, ws.py)  *)
(*   - the auth middleware                 (auth.py)                       *)
(*   - the send-keys protocol              (ssh.py)                        *)
(*   - the usage monitor                   (workers/usage_poller.py)       *)
(*   - the shell-output capture of bridges (agent-bridge.py)               *)
(*   - the bridge webhook                  (api/sessions.py)               *)
(*   - the session API                     (api/sessions.py)               *)
(* Coroutines are split at their await points: one action per stretch of   *)
(* code that runs without yielding to the event loop.                      *)
(***************************************************************************)
EXTENDS Integers, Sequences, FiniteSets, TLC

VARIABLES
    sessions,      \* sessions table: name -> row, or NoRow
    messages,      \* messages table: sequence of rows, index = autoincrement id
    events_tbl,    \* events table (audit log): sequence of rows
    published,     \* every event handed to EventBus.publish, in call order
    subscribers,   \* EventBus._subscribers: sub_id -> queue content
    sub_cap,       \* maxsize of each registered queue
    sub_counter,   \* EventBus._counter
    ingest,        \* per ingestion task: position and locals
    ingest_calls,  \* number of ingestion calls started so far
    recon,         \* SessionPoller task: position and locals of _poll_once
    del,           \* DELETE /api/sessions/{name} handler: position and locals
    clock,         \* wall clock read by now_iso()
    cmds,          \* command_queue table: sequence of rows, index = id
    drain,         \* per drainer: position and locals of the drain it runs
    cancel,        \* DELETE /api/usage/queue/{id} handler: position, locals
    sent,          \* number of send_to_session calls made for each command id
    queue_cfg,     \* UsageService.enable_command_queue and the call counter
    ws,            \* per websocket client: socket state, filter, frames sent
    auth,          \* config.dashboard_token, cookies handed out, last request
    send,          \* send_to_tmux calls and the remote invocations they made
    usage,         \* usage_snapshots table and what the last usage poll step did
    capture,       \* shell-output capture task of a bridge: position, locals
    hook,          \* POST /api/hooks/event: responses given, ingestions answered
    api,           \* session API handlers: requests answered, the last response
    rate,          \* rate limiter: monotonic clock, buckets, admissions counted
    settings,      \* settings API: kv rows, the last PUT body and the last GET response
    jsonl,         \* transcript tail: the file, the kv watermarks, the last pass
    handlers,      \* websocket handlers: how far each has got, its subscriber id, its socket in ws_clients
    tasks,         \* bridge background tasks: every task spawned, and the tracked set
    workers        \* worker loops: where each loop is and how its last cycle ended

msgVars == <<messages, ingest, ingest_calls>>
busVars == <<published, subscribers, sub_cap, sub_counter>>
reconVars == <<recon, del>>
queueVars == <<cmds, drain, cancel, sent, queue_cfg>>
wsVars == <<ws>>
authVars == <<auth>>
sendVars == <<send>>
usageVars == <<usage>>
captureVars == <<capture>>
hookVars == <<hook>>
apiVars == <<api>>
rateVars == <<rate>>
settingsVars == <<settings>>
jsonlVars == <<jsonl>>
handlersVars == <<handlers>>
tasksVars == <<tasks>>
workersVars == <<workers>>
nonMsgVars == <<reconVars, queueVars, wsVars, authVars, clock, sendVars,
                usageVars, captureVars, hookVars, apiVars, rateVars,
                settingsVars, jsonlVars, handlersVars, tasksVars, workersVars>>
nonReconVars == <<msgVars, queueVars, wsVars, authVars, sendVars, usageVars,
                  captureVars, hookVars, apiVars, rateVars, settingsVars,
                  jsonlVars, handlersVars, tasksVars, workersVars>>
nonQueueVars == <<sessions, events_tbl, msgVars, reconVars, wsVars, authVars,
                  sendVars, usageVars, captureVars, hookVars, apiVars,
                  rateVars, settingsVars, jsonlVars, handlersVars, tasksVars,
                  workersVars>>
nonWsVars == <<msgVars, reconVars, queueVars, authVars, sendVars, usageVars,
               captureVars, hookVars, apiVars, rateVars, settingsVars,
               jsonlVars, handlersVars, tasksVars, workersVars>>
nonAuthVars == <<sessions, events_tbl, msgVars, busVars, reconVars, queueVars,
                 wsVars, sendVars, usageVars, captureVars, hookVars, apiVars,
                 rateVars, settingsVars, jsonlVars, handlersVars, tasksVars,
                 workersVars>>
nonSendVars == <<sessions, events_tbl, msgVars, busVars, reconVars, queueVars,
                 wsVars, authVars, usageVars, captureVars, hookVars, apiVars,
                 rateVars, settingsVars, jsonlVars, handlersVars, tasksVars,
                 workersVars>>
nonUsageVars == <<sessions, events_tbl, msgVars, reconVars, queueVars, wsVars,
                  authVars, sendVars, captureVars, hookVars, apiVars,
                  rateVars, settingsVars, jsonlVars, handlersVars, tasksVars,
                  workersVars>>
nonCaptureVars == <<sessions, events_tbl, msgVars, busVars, reconVars,
                    queueVars, wsVars, authVars, sendVars, usageVars,
                    hookVars, apiVars, rateVars, settingsVars, jsonlVars,
                    handlersVars, tasksVars, workersVars>>
nonHookVars == <<sessions, events_tbl, clock, msgVars, busVars, reconVars,
                 queueVars, wsVars, authVars, sendVars, usageVars,
                 captureVars, apiVars, rateVars, settingsVars, jsonlVars,
                 handlersVars, tasksVars, workersVars>>
nonApiVars == <<events_tbl, msgVars, reconVars, queueVars, wsVars, authVars,
                sendVars, usageVars, captureVars, hookVars, rateVars,
                settingsVars, jsonlVars, handlersVars, tasksVars, workersVars>>
nonRateVars == <<sessions, events_tbl, clock, msgVars, busVars, reconVars,
                 queueVars, wsVars, authVars, sendVars, usageVars,
                 captureVars, hookVars, apiVars, settingsVars, jsonlVars,
                 handlersVars, tasksVars, workersVars>>
nonSettingsVars == <<sessions, events_tbl, clock, msgVars, busVars, reconVars,
                     queueVars, wsVars, authVars, sendVars, usageVars,
                     captureVars, hookVars, apiVars, rateVars, jsonlVars,
                     handlersVars, tasksVars, workersVars>>
nonJsonlVars == <<sessions, events_tbl, clock, ingest, ingest_calls,
                  reconVars, queueVars, wsVars, authVars, sendVars, usageVars,
                  captureVars, hookVars, apiVars, rateVars, settingsVars,
                  handlersVars, tasksVars, workersVars>>
nonHandlersVars == <<sessions, events_tbl, clock, msgVars, reconVars,
                     queueVars, wsVars, authVars, sendVars, usageVars,
                     captureVars, hookVars, apiVars, rateVars, settingsVars,
                     jsonlVars, tasksVars, workersVars>>
nonTasksVars == <<sessions, events_tbl, clock, msgVars, busVars, reconVars,
                  queueVars, wsVars, authVars, sendVars, usageVars,
                  captureVars, hookVars, apiVars, rateVars, settingsVars,
                  jsonlVars, handlersVars, workersVars>>
nonWorkersVars == <<sessions, events_tbl, clock, msgVars, busVars, reconVars,
                    queueVars, wsVars, authVars, sendVars, usageVars,
                    captureVars, hookVars, apiVars, rateVars, settingsVars,
                    jsonlVars, handlersVars, tasksVars>>
vars == <<sessions, events_tbl, clock, msgVars, busVars, reconVars, queueVars,
          wsVars, authVars, sendVars, usageVars, captureVars, hookVars,
          apiVars, rateVars, settingsVars, jsonlVars, handlersVars, tasksVars,
          workersVars>>

(***************************************************************************)
(* Bounds                                                                  *)
(***************************************************************************)
MaxIngest == 2
IngestTasks == {1, 2}

(***************************************************************************)
(* Text.  Free text (content, platform ids, dedup keys) is a sequence of   *)
(* characters; NULL is SQL NULL / Python None.  Names of sessions and       *)
(* source tags are TLA+ strings, spelled out by Chars when formatted.      *)
(***************************************************************************)
NULL == <<"NULL">>
NoRow == [status |-> "absent"]

Chars(s) ==
    CASE s = "discord" -> <<"d","i","s","c","o","r","d">>
      [] s = "slack"   -> <<"s","l","a","c","k">>
      [] s = "tmux"    -> <<"t","m","u","x">>
      [] s = "hook"    -> <<"h","o","o","k">>
      [] s = "demo"    -> <<"d","e","m","o">>
      [] s = "nope"    -> <<"n","o","p","e">>
      [] s = "jsonl"   -> <<"j","s","o","n","l">>
      [] s = ""        -> <<>>

Min(a, b) == IF a < b THEN a ELSE b

\* Python truthiness of an optional string: None and "" are falsy.
Truthy(x) == x # NULL /\ x # <<>>

\* a or b
PyOr(a, b) == IF Truthy(a) THEN a ELSE b

\* s[:n]
Take(s, n) == SubSeq(s, 1, Min(Len(s), n))

IsSpace(c) == c = " "

RECURSIVE LStrip(_)
LStrip(s) == IF s # <<>> /\ IsSpace(Head(s)) THEN LStrip(Tail(s)) ELSE s

RECURSIVE RStrip(_)
RStrip(s) ==
    IF s # <<>> /\ IsSpace(s[Len(s)]) THEN RStrip(SubSeq(s, 1, Len(s) - 1)) ELSE s

\* str.strip()
Strip(s) == RStrip(LStrip(s))

\* hashlib.sha256(key).hexdigest(): injective on keys
Sha256(key) == <<"sha256">> \o key

DedupKeyLen == 200

compute_dedup_hash(session_name, source, source_id, content) ==
    IF Truthy(source_id)
    THEN Sha256(Chars(source) \o <<":">> \o source_id)
    ELSE Sha256(Chars(session_name) \o <<":">> \o Chars(source) \o <<":">>
                \o Take(content, DedupKeyLen))

(***************************************************************************)
(* Event bus                                                               *)
(***************************************************************************)
\* type, payload.name and payload.session_name of an event ("" when the
\* payload has no such key); ref carries the rest of what the publisher put
\* into it or knew when publishing
Event(type, name, session_name, ref) ==
    [type |-> type, name |-> name, session_name |-> session_name, ref |-> ref]

\* a queue that hands out its newest item first
PutNowait_front(q, cap, e) == IF Len(q) < cap THEN <<e>> \o q ELSE q

\* queue.put_nowait(event): appended unless the queue is full
PutNowait(q, cap, e) == IF Len(q) < cap THEN Append(q, e) ELSE q

\* a publish that gives up on everybody once one queue is full
Publish_allornothing(e) ==
    /\ published' = Append(published, e)
    /\ subscribers' =
          IF \E i \in DOMAIN subscribers : Len(subscribers[i]) >= sub_cap[i]
          THEN subscribers
          ELSE [i \in DOMAIN subscribers |-> Append(subscribers[i], e)]
    /\ UNCHANGED <<sub_cap, sub_counter>>

\* EventBus.publish: snapshot of the subscriber table, then one put_nowait
\* per subscriber; nothing in it yields to the event loop.
Publish(e) ==
    /\ published' = Append(published, e)
    /\ subscribers' = [i \in DOMAIN subscribers |->
                          PutNowait(subscribers[i], sub_cap[i], e)]
    /\ UNCHANGED <<sub_cap, sub_counter>>

(***************************************************************************)
(* Store                                                                   *)
(***************************************************************************)
HashSet(tbl) == {tbl[i].dedup_hash : i \in 1..Len(tbl)}

\* db.insert_or_ignore into messages: one atomic statement; the unique
\* index idx_messages_dedup rejects a row whose dedup_hash is already stored.
InsertOrIgnore(tbl, row) ==
    IF row.dedup_hash \in HashSet(tbl) THEN tbl ELSE Append(tbl, row)

\* a rowcount that reports the attempted row whether or not it was stored
RowCount_attempted(tbl, row) == 1

\* cursor.rowcount of that statement
RowCount(tbl, row) == IF row.dedup_hash \in HashSet(tbl) THEN 0 ELSE 1

SessionExists(name) == sessions[name] # NoRow

(***************************************************************************)
(* Message ingestion (MessageService)                                      *)
(***************************************************************************)
NoMsg == [session_name |-> "", content |-> <<>>, source |-> "",
          source_id |-> NULL, dedup_hash |-> <<>>]

IdleTask == [pc |-> "idle", row |-> NoMsg, etype |-> "", rowcount |-> 0,
             src |-> "", sess |-> "", rest |-> <<>>, ingested |-> 0]

MessageRow(session_name, content, source, source_id) ==
    [session_name |-> session_name, content |-> content, source |-> source,
     source_id |-> source_id,
     dedup_hash |-> compute_dedup_hash(session_name, source, source_id, content)]

\* source = platform if platform in ("discord", "slack", "tmux") else "hook"
SourceOf(platform) ==
    IF platform \in {"discord", "slack", "tmux"} THEN platform ELSE "hook"

TypingTypes == {"typing.start", "typing.stop"}

\* Webhook bodies the bridge tasks are fed with
BridgeSessionNames == {"hook", "nope", ""}
BridgePlatforms == {"discord", "web"}
BridgeContents == {<<"a">>, <<" ">>}
BridgeIds == {<<NULL, NULL>>, <<<<"1">>, NULL>>, <<NULL, <<"1">>>>,
              <<<<"h","o","o","k",":","a">>, NULL>>, <<<<>>, <<>>>>}

BridgeEvents ==
    [type : {"message.relayed"}, session_name : BridgeSessionNames,
     platform : BridgePlatforms, content : BridgeContents, ids : BridgeIds]
    \cup
    [type : TypingTypes, session_name : {"hook", ""},
     platform : {"discord"}, content : {<<>>}, ids : {<<NULL, NULL>>}]

\* ingest_bridge_event up to its first database statement.  A typing event
\* is re-published and nothing else happens; an event without session name,
\* for an unknown session or with blank content is dropped.
BridgeReceive(t, ev) ==
    /\ ingest[t].pc = "idle"
    /\ ingest_calls < MaxIngest
    /\ ingest_calls' = ingest_calls + 1
    /\ UNCHANGED <<sessions, messages, events_tbl>>
    /\ UNCHANGED nonMsgVars
    /\ IF ev.type \in TypingTypes
       THEN /\ UNCHANGED ingest
            /\ IF ev.session_name # ""
               THEN Publish(Event(ev.type, "", ev.session_name, NULL))
               ELSE UNCHANGED busVars
       ELSE /\ UNCHANGED busVars
            /\ IF \/ ev.session_name = ""
                  \/ ~SessionExists(ev.session_name)
                  \/ Strip(ev.content) = <<>>
               THEN UNCHANGED ingest
               ELSE LET source == SourceOf(ev.platform)
                        source_id == PyOr(ev.ids[1], ev.ids[2])
                    IN ingest' = [ingest EXCEPT ![t] =
                         [IdleTask EXCEPT
                            !.pc = "insert",
                            !.etype = ev.type,
                            !.row = MessageRow(ev.session_name,
                                        Strip(ev.content), source, source_id)]]

\* cursor = await db.insert_or_ignore("messages", ...)
BridgeInsert(t) ==
    /\ ingest[t].pc = "insert"
    /\ messages' = InsertOrIgnore(messages, ingest[t].row)
    /\ ingest' = [ingest EXCEPT
                    ![t].rowcount = RowCount(messages, ingest[t].row),
                    ![t].pc = IF RowCount(messages, ingest[t].row) > 0
                              THEN "publish" ELSE "audit"]
    /\ UNCHANGED <<sessions, events_tbl, ingest_calls>>
    /\ UNCHANGED nonMsgVars
    /\ UNCHANGED busVars

\* if cursor.rowcount and cursor.rowcount > 0: publish message.new
BridgePublish(t) ==
    /\ ingest[t].pc = "publish"
    /\ Publish(Event("message.new", "", ingest[t].row.session_name,
                     [content |-> ingest[t].row.content,
                      source |-> ingest[t].row.source,
                      source_id |-> ingest[t].row.source_id]))
    /\ ingest' = [ingest EXCEPT ![t].pc = "audit"]
    /\ UNCHANGED <<sessions, messages, events_tbl, ingest_calls>>
    /\ UNCHANGED nonMsgVars

\* the trailing insert into the events table
BridgeAudit(t) ==
    /\ ingest[t].pc = "audit"
    /\ events_tbl' = Append(events_tbl,
                        [event_type |-> ingest[t].etype,
                         session_name |-> ingest[t].row.session_name])
    /\ ingest' = [ingest EXCEPT ![t] = IdleTask]
    /\ UNCHANGED <<sessions, messages, ingest_calls>>
    /\ UNCHANGED nonMsgVars
    /\ UNCHANGED busVars

\* Platform messages handed to ingest_discord_messages (id, content) and to
\* ingest_slack_messages (ts, text); a missing id or ts is "".
PlatformMsgs == {[id |-> <<"1">>, content |-> <<"a">>],
                 [id |-> <<"1">>, content |-> <<" ">>],
                 [id |-> <<>>, content |-> <<"b">>]}
MaxBatch == 2
Batches == UNION {[1..n -> PlatformMsgs] : n \in 1..MaxBatch}

\* ingest_discord_messages / ingest_slack_messages are called by the sync
\* worker and by POST /api/sessions/{name}/sync for a stored session.
BatchStart(t, src, name, batch) ==
    /\ ingest[t].pc = "idle"
    /\ ingest_calls < MaxIngest
    /\ SessionExists(name)
    /\ ingest_calls' = ingest_calls + 1
    /\ ingest' = [ingest EXCEPT ![t] =
                    [IdleTask EXCEPT !.pc = "batch", !.src = src,
                                     !.sess = name, !.rest = batch]]
    /\ UNCHANGED <<sessions, messages, events_tbl>>
    /\ UNCHANGED nonMsgVars
    /\ UNCHANGED busVars

\* One turn of the for loop: a blank message is skipped, any other is
\* inserted with source_id = id / ts; the loop ends when the list is used up.
BatchStep(t) ==
    /\ ingest[t].pc = "batch"
    /\ UNCHANGED <<sessions, events_tbl, ingest_calls>>
    /\ UNCHANGED nonMsgVars
    /\ UNCHANGED busVars
    /\ IF ingest[t].rest = <<>>
       THEN /\ ingest' = [ingest EXCEPT ![t] = IdleTask]
            /\ UNCHANGED messages
       ELSE LET msg == Head(ingest[t].rest)
                content == Strip(msg.content)
                row == MessageRow(ingest[t].sess, content, ingest[t].src, msg.id)
            IN IF content = <<>>
               THEN /\ ingest' = [ingest EXCEPT ![t].rest = Tail(@)]
                    /\ UNCHANGED messages
               ELSE /\ messages' = InsertOrIgnore(messages, row)
                    /\ ingest' = [ingest EXCEPT
                                    ![t].rest = Tail(@),
                                    ![t].ingested = @ + RowCount(messages, row)]

(***************************************************************************)
(* Session reconciler (workers/session_poller.py) and the session API      *)
(***************************************************************************)
MaxTicks == 2
MaxDeletes == 1

Hosts == {"h1", "h2"}
\* completion orders of the parallel host queries
HostOrders == {<<"h1", "h2">>, <<"h2", "h1">>}
INFRA_SESSIONS == {"agent-bridge", "slack-bridge"}
ReconNames == {"demo", "hook"}
\* names the delete requests are made for
DeleteNames == {"demo"}
\* order in which the two for loops of _poll_once visit names
NameOrder == <<"demo", "hook">>
\* what `tmux list-sessions` can print on each host
TmuxListings ==
    {l \in [Hosts -> SUBSET {"demo", "hook", "agent-bridge"}] :
        l["h2"] \subseteq {"demo"}}

NoTime == 0
NoHost == ""

SessionRow(status, host, closed_at) ==
    [status |-> status, host |-> host, closed_at |-> closed_at]

\* fresh: the names that had no stored row when the tick started; failed:
\* the hosts whose listing failed in this tick; first: for each name the
\* host whose query completed first among those that reported it (all three
\* kept for the properties; the code has no such variables)
IdleRecon == [pc |-> "idle", live |-> [n \in ReconNames |-> NoHost],
              db_sessions |-> [n \in ReconNames |-> NoRow],
              now |-> NoTime, todo |-> <<>>, ticks |-> 0, fresh |-> {},
              failed |-> {}, first |-> [n \in ReconNames |-> NoHost]]

IdleDel == [pc |-> "idle", name |-> "", calls |-> 0]

Max(S) == CHOOSE x \in S : \A y \in S : y <= x

SeqOf(S) == SelectSeq(NameOrder, LAMBDA n : n \in S)

\* SessionService.list_all_sessions: a host whose query fails reports no
\* session; infrastructure sessions are filtered out.
list_all_sessions(listing, failed) ==
    [h \in Hosts |-> IF h \in failed THEN {} ELSE listing[h] \ INFRA_SESSIONS]

\* live[name] = host, filled in the order the host queries completed: a
\* later host overwrites an earlier one.
Live(host_sessions, order) ==
    [n \in ReconNames |->
        LET at == {i \in 1..Len(order) : n \in host_sessions[order[i]]}
        IN IF at = {} THEN NoHost ELSE order[Max(at)]]

\* the host that completed first among those reporting the name
FirstReporter(host_sessions, order) ==
    [n \in ReconNames |->
        LET at == {i \in 1..Len(order) : n \in host_sessions[order[i]]}
        IN IF at = {} THEN NoHost
           ELSE order[CHOOSE i \in at : \A j \in at : i <= j]]

\* UPDATE sessions SET ... WHERE name = ?
UpdateSession(name, row) ==
    IF sessions[name] = NoRow THEN sessions
    ELSE [sessions EXCEPT ![name] = row]

\* end of a tick: back to the sleep of the poller loop
Finish(r) == [IdleRecon EXCEPT !.ticks = r.ticks]

NextExisting(r, rest) ==
    IF rest = <<>> THEN Finish(r)
    ELSE [r EXCEPT !.pc = "existing", !.todo = rest]

StartExisting(r) ==
    NextExisting(r, SeqOf({n \in ReconNames : r.db_sessions[n] # NoRow}))

NextNew(r, rest) ==
    IF rest = <<>> THEN StartExisting(r)
    ELSE [r EXCEPT !.pc = "insert", !.todo = rest]

\* host_sessions = await session_svc.list_all_sessions(); live = {...}
PollList(listing, failed, order) ==
    /\ recon.pc = "idle"
    /\ recon.ticks < MaxTicks
    /\ recon' = [recon EXCEPT
                   !.pc = "snapshot",
                   !.live = Live(list_all_sessions(listing, failed), order),
                   !.fresh = {n \in ReconNames : sessions[n] = NoRow},
                   !.failed = failed,
                   !.first = FirstReporter(list_all_sessions(listing, failed),
                                           order),
                   !.ticks = @ + 1]
    /\ UNCHANGED <<sessions, events_tbl, del, clock>>
    /\ UNCHANGED busVars
    /\ UNCHANGED nonReconVars

\* db_sessions = SELECT * FROM sessions WHERE status != 'closed'; now = now_iso()
PollSnapshot ==
    /\ recon.pc = "snapshot"
    /\ LET db == [n \in ReconNames |->
                    IF sessions[n] # NoRow /\ sessions[n].status # "closed"
                    THEN sessions[n] ELSE NoRow]
           new == SeqOf({n \in ReconNames :
                           recon.live[n] # NoHost /\ db[n] = NoRow})
       IN recon' = NextNew([recon EXCEPT !.db_sessions = db, !.now = clock],
                           new)
    /\ clock' = clock + 1
    /\ UNCHANGED <<sessions, events_tbl, del>>
    /\ UNCHANGED busVars
    /\ UNCHANGED nonReconVars

\* INSERT OR IGNORE INTO sessions (name, host, status, ...) VALUES (?, ?, 'active', ...)
PollInsert ==
    /\ recon.pc = "insert"
    /\ LET name == Head(recon.todo)
       IN sessions' = IF sessions[name] = NoRow
                      THEN [sessions EXCEPT ![name] =
                              SessionRow("active", recon.live[name], NoTime)]
                      ELSE sessions
    /\ recon' = [recon EXCEPT !.pc = "created"]
    /\ UNCHANGED <<events_tbl, del, clock>>
    /\ UNCHANGED busVars
    /\ UNCHANGED nonReconVars

\* a discovery that is announced but not written to the event log
PollCreated_nolog ==
    /\ recon.pc = "created"
    /\ LET name == Head(recon.todo)
       IN /\ IF sessions[name] # NoRow
             THEN /\ Publish(Event("session.created", name, "",
                                     [by |-> "poller", was |-> "absent"]))
                  /\ UNCHANGED events_tbl
             ELSE UNCHANGED <<busVars, events_tbl>>
          /\ recon' = NextNew(recon, Tail(recon.todo))
    /\ UNCHANGED <<sessions, del, clock>>
    /\ UNCHANGED nonReconVars

\* thread-id and working-directory lookups, then: session_row = fetchone;
\* if session_row: publish session.created and insert the audit row
PollCreated ==
    /\ recon.pc = "created"
    /\ LET name == Head(recon.todo)
       IN /\ IF sessions[name] # NoRow
             THEN /\ Publish(Event("session.created", name, "",
                                     [by |-> "poller", was |-> "absent"]))
                  /\ events_tbl' = Append(events_tbl,
                                     [event_type |-> "session.created",
                                      session_name |-> name])
             ELSE UNCHANGED <<busVars, events_tbl>>
          /\ recon' = NextNew(recon, Tail(recon.todo))
    /\ UNCHANGED <<sessions, del, clock>>
    /\ UNCHANGED nonReconVars

\* a closing UPDATE that leaves closed_at as it was
PollExisting_nostamp ==
    /\ recon.pc = "existing"
    /\ LET name == Head(recon.todo)
           session == recon.db_sessions[name]
           host == recon.live[name]
           stored == sessions[name]
       IN IF host # NoHost
          THEN /\ sessions' = UpdateSession(name,
                     [stored EXCEPT
                        !.status = IF session.status \in
                                      {"closed", "idle", "orphan", "unreachable"}
                                   THEN "active" ELSE @,
                        !.host = IF session.host # host THEN host ELSE @])
               /\ recon' = IF session.status # "active" \/ session.host # host
                           THEN [recon EXCEPT !.pc = "updated"]
                           ELSE NextExisting(recon, Tail(recon.todo))
          ELSE IF session.status # "closed"
               THEN /\ sessions' = UpdateSession(name,
                          [stored EXCEPT !.status = "closed"])
                    /\ recon' = [recon EXCEPT !.pc = "closed"]
               ELSE /\ UNCHANGED sessions
                    /\ recon' = NextExisting(recon, Tail(recon.todo))
    /\ UNCHANGED <<events_tbl, del, clock>>
    /\ UNCHANGED busVars
    /\ UNCHANGED nonReconVars

\* One turn of the loop over the snapshot.  `session` is the row as it was
\* when the snapshot was taken; the UPDATE statements act on the stored row.
PollExisting ==
    /\ recon.pc = "existing"
    /\ LET name == Head(recon.todo)
           session == recon.db_sessions[name]
           host == recon.live[name]
           stored == sessions[name]
       IN IF host # NoHost
          THEN /\ sessions' = UpdateSession(name,
                     [stored EXCEPT
                        !.status = IF session.status \in
                                      {"closed", "idle", "orphan", "unreachable"}
                                   THEN "active" ELSE @,
                        !.host = IF session.host # host THEN host ELSE @])
               /\ recon' = IF session.status # "active" \/ session.host # host
                           THEN [recon EXCEPT !.pc = "updated"]
                           ELSE NextExisting(recon, Tail(recon.todo))
          ELSE IF session.status # "closed"
               THEN /\ sessions' = UpdateSession(name,
                          [stored EXCEPT !.status = "closed",
                                         !.closed_at = recon.now])
                    /\ recon' = [recon EXCEPT !.pc = "closed"]
               ELSE /\ UNCHANGED sessions
                    /\ recon' = NextExisting(recon, Tail(recon.todo))
    /\ UNCHANGED <<events_tbl, del, clock>>
    /\ UNCHANGED busVars
    /\ UNCHANGED nonReconVars

\* updated_row = fetchone; if updated_row: publish session.updated
PollUpdated ==
    /\ recon.pc = "updated"
    /\ LET name == Head(recon.todo)
       IN /\ IF sessions[name] # NoRow
             THEN Publish(Event("session.updated", name, "",
                                [by |-> "poller",
                                 was |-> recon.db_sessions[name].status]))
             ELSE UNCHANGED busVars
          /\ recon' = NextExisting(recon, Tail(recon.todo))
    /\ UNCHANGED <<sessions, events_tbl, del, clock>>
    /\ UNCHANGED nonReconVars

\* closed_row = fetchone; if closed_row: publish session.closed and insert
\* the audit row
PollClosed ==
    /\ recon.pc = "closed"
    /\ LET name == Head(recon.todo)
       IN /\ IF sessions[name] # NoRow
             THEN /\ Publish(Event("session.closed", name, "",
                                     [by |-> "poller",
                                      was |-> recon.db_sessions[name].status]))
                  /\ events_tbl' = Append(events_tbl,
                                     [event_type |-> "session.closed",
                                      session_name |-> name])
             ELSE UNCHANGED <<busVars, events_tbl>>
          /\ recon' = NextExisting(recon, Tail(recon.todo))
    /\ UNCHANGED <<sessions, del, clock>>
    /\ UNCHANGED nonReconVars

\* DELETE /api/sessions/{name}: session = fetchone; 404 if there is no row
DeleteStart(name) ==
    /\ del.pc = "idle"
    /\ del.calls < MaxDeletes
    /\ del' = IF sessions[name] = NoRow
              THEN [del EXCEPT !.calls = @ + 1]
              ELSE [del EXCEPT !.pc = "update", !.name = name, !.calls = @ + 1]
    /\ UNCHANGED <<sessions, events_tbl, recon, clock>>
    /\ UNCHANGED busVars
    /\ UNCHANGED nonReconVars

\* after kill_session and archive_threads: now = now_iso();
\* UPDATE sessions SET status = 'closed', closed_at = now WHERE name = ?
DeleteUpdate ==
    /\ del.pc = "update"
    /\ sessions' = UpdateSession(del.name,
                      [sessions[del.name] EXCEPT !.status = "closed",
                                                 !.closed_at = clock])
    /\ clock' = clock + 1
    /\ del' = [del EXCEPT !.pc = "publish"]
    /\ UNCHANGED <<events_tbl, recon>>
    /\ UNCHANGED busVars
    /\ UNCHANGED nonReconVars

\* updated_session = fetchone; if updated_session: publish session.closed
DeletePublish ==
    /\ del.pc = "publish"
    /\ IF sessions[del.name] # NoRow
       THEN Publish(Event("session.closed", del.name, "",
                        [by |-> "api", was |-> ""]))
       ELSE UNCHANGED busVars
    /\ del' = [IdleDel EXCEPT !.calls = del.calls]
    /\ UNCHANGED <<sessions, events_tbl, recon, clock>>
    /\ UNCHANGED nonReconVars

(***************************************************************************)
(* Command queue (services/usage_service.py, workers/usage_poller.py,      *)
(* api/usage.py)                                                           *)
(***************************************************************************)
MaxCmds == 2
\* poller polls, execute requests and cancel requests, all together
MaxQueueCalls == 2

Priorities == {0, 1}
\* the usage poller and the POST /api/usage/queue/execute handler
Drainers == {"poller", "manual"}
SendOutcomes == {"ok", "false", "raise"}
PendingLimit == 50

CmdRow(priority, created_at) ==
    [session_name |-> "demo", status |-> "pending", priority |-> priority,
     created_at |-> created_at]

IdleDrain == [pc |-> "idle", todo |-> <<>>, outcome |-> ""]
IdleCancel == [pc |-> "idle", id |-> 0, responses |-> {}]

\* ORDER BY priority DESC, created_at ASC (rows of equal rank in id order)
Before(tbl, a, b) ==
    \/ tbl[a].priority > tbl[b].priority
    \/ /\ tbl[a].priority = tbl[b].priority
       /\ \/ tbl[a].created_at < tbl[b].created_at
          \/ tbl[a].created_at = tbl[b].created_at /\ a < b

RECURSIVE SortIds(_, _)
SortIds(tbl, ids) ==
    IF ids = {} THEN <<>>
    ELSE LET first == CHOOSE a \in ids : \A b \in ids \ {a} : Before(tbl, a, b)
         IN <<first>> \o SortIds(tbl, ids \ {first})

\* SELECT * FROM command_queue WHERE status = 'pending'
\* ORDER BY priority DESC, created_at ASC LIMIT ?
get_pending_commands(tbl, limit) ==
    Take(SortIds(tbl, {i \in 1..Len(tbl) : tbl[i].status = "pending"}), limit)

\* UPDATE command_queue SET status = ? WHERE id = ?
SetStatus(tbl, id, status) ==
    IF id \in 1..Len(tbl) THEN [tbl EXCEPT ![id].status = status] ELSE tbl

CommandEvent(type, id) ==
    Event(type, "", cmds[id].session_name, [id |-> id])

\* enqueue_command: INSERT with status 'pending', then publish command.queued
Enqueue(priority) ==
    /\ Len(cmds) < MaxCmds
    /\ cmds' = Append(cmds, CmdRow(priority, clock))
    /\ clock' = clock + 1
    /\ sent' = Append(sent, 0)
    /\ Publish(Event("command.queued", "", "demo", [id |-> Len(cmds) + 1]))
    /\ UNCHANGED <<drain, cancel, queue_cfg>>
    /\ UNCHANGED nonQueueVars

\* usage poller _poll_once up to `if any_reset and enable_command_queue`
PollerReset(any_reset) ==
    /\ drain["poller"].pc = "idle"
    /\ queue_cfg.calls < MaxQueueCalls
    /\ queue_cfg' = [queue_cfg EXCEPT !.calls = @ + 1]
    /\ drain' = IF any_reset /\ queue_cfg.enable_command_queue
                THEN [drain EXCEPT !["poller"].pc = "check"]
                ELSE drain
    /\ UNCHANGED <<cmds, cancel, sent, clock>>
    /\ UNCHANGED busVars
    /\ UNCHANGED nonQueueVars

\* pending = await get_pending_commands(); if pending: execute_pending_commands()
PollerCheck ==
    /\ drain["poller"].pc = "check"
    /\ drain' = IF get_pending_commands(cmds, PendingLimit) # <<>>
                THEN [drain EXCEPT !["poller"].pc = "snapshot"]
                ELSE [drain EXCEPT !["poller"] = IdleDrain]
    /\ UNCHANGED <<cmds, cancel, sent, queue_cfg, clock>>
    /\ UNCHANGED busVars
    /\ UNCHANGED nonQueueVars

\* POST /api/usage/queue/execute
ExecuteStart ==
    /\ drain["manual"].pc = "idle"
    /\ queue_cfg.calls < MaxQueueCalls
    /\ queue_cfg' = [queue_cfg EXCEPT !.calls = @ + 1]
    /\ drain' = [drain EXCEPT !["manual"].pc = "snapshot"]
    /\ UNCHANGED <<cmds, cancel, sent, clock>>
    /\ UNCHANGED busVars
    /\ UNCHANGED nonQueueVars

NextCommand(d, rest) ==
    IF rest = <<>> THEN IdleDrain
    ELSE [pc |-> "mark", todo |-> rest, outcome |-> ""]

\* execute_pending_commands: commands = await self.get_pending_commands()
DrainSnapshot(d) ==
    /\ drain[d].pc = "snapshot"
    /\ drain' = [drain EXCEPT ![d] =
                    NextCommand(d, get_pending_commands(cmds, PendingLimit))]
    /\ UNCHANGED <<cmds, cancel, sent, queue_cfg, clock>>
    /\ UNCHANGED busVars
    /\ UNCHANGED nonQueueVars

\* UPDATE command_queue SET status = 'executing' WHERE id = cmd_id
DrainMark(d) ==
    /\ drain[d].pc = "mark"
    /\ cmds' = SetStatus(cmds, Head(drain[d].todo), "executing")
    /\ drain' = [drain EXCEPT ![d].pc = "send"]
    /\ UNCHANGED <<cancel, sent, queue_cfg, clock>>
    /\ UNCHANGED busVars
    /\ UNCHANGED nonQueueVars

\* success = await self.session_svc.send_to_session(...): true, false or raises
DrainSend(d, outcome) ==
    /\ drain[d].pc = "send"
    /\ sent' = [sent EXCEPT ![Head(drain[d].todo)] = @ + 1]
    /\ drain' = [drain EXCEPT ![d].pc = "finish", ![d].outcome = outcome]
    /\ UNCHANGED <<cmds, cancel, queue_cfg, clock>>
    /\ UNCHANGED busVars
    /\ UNCHANGED nonQueueVars

\* UPDATE ... 'completed' and publish command.executed, or UPDATE ... 'failed'
\* and publish command.failed; then the next command of the snapshot
DrainFinish(d) ==
    /\ drain[d].pc = "finish"
    /\ LET cmd_id == Head(drain[d].todo)
       IN IF drain[d].outcome = "ok"
          THEN /\ cmds' = SetStatus(cmds, cmd_id, "completed")
               /\ Publish(CommandEvent("command.executed", cmd_id))
          ELSE /\ cmds' = SetStatus(cmds, cmd_id, "failed")
               /\ Publish(CommandEvent("command.failed", cmd_id))
    /\ drain' = [drain EXCEPT ![d] = NextCommand(d, Tail(drain[d].todo))]
    /\ UNCHANGED <<cancel, sent, queue_cfg, clock>>
    /\ UNCHANGED nonQueueVars

CancelIds == 1..(MaxCmds + 1)

\* a cancel that only checks that the row exists
CancelRead_any(id) ==
    /\ cancel.pc = "idle"
    /\ queue_cfg.calls < MaxQueueCalls
    /\ queue_cfg' = [queue_cfg EXCEPT !.calls = @ + 1]
    /\ cancel' = IF id \in 1..Len(cmds)
                 THEN [cancel EXCEPT !.pc = "write", !.id = id]
                 ELSE [cancel EXCEPT !.id = id,
                          !.responses = @ \cup {[id |-> id, code |-> 404]}]
    /\ UNCHANGED <<cmds, drain, sent, clock>>
    /\ UNCHANGED busVars
    /\ UNCHANGED nonQueueVars

\* cancel_command: row = SELECT status ...; if not row or status != 'pending'
\* return False, which the handler answers with 404 NOT_FOUND
CancelRead(id) ==
    /\ cancel.pc = "idle"
    /\ queue_cfg.calls < MaxQueueCalls
    /\ queue_cfg' = [queue_cfg EXCEPT !.calls = @ + 1]
    /\ cancel' = IF id \in 1..Len(cmds) /\ cmds[id].status = "pending"
                 THEN [cancel EXCEPT !.pc = "write", !.id = id]
                 ELSE [cancel EXCEPT !.id = id,
                          !.responses = @ \cup {[id |-> id, code |-> 404]}]
    /\ UNCHANGED <<cmds, drain, sent, clock>>
    /\ UNCHANGED busVars
    /\ UNCHANGED nonQueueVars

\* UPDATE command_queue SET status = 'cancelled' WHERE id = ?; return True,
\* which the handler answers with 200 {"cancelled": true}
CancelWrite ==
    /\ cancel.pc = "write"
    /\ cmds' = SetStatus(cmds, cancel.id, "cancelled")
    /\ cancel' = [cancel EXCEPT !.pc = "idle",
                    !.responses = @ \cup {[id |-> cancel.id, code |-> 200]}]
    /\ UNCHANGED <<drain, sent, queue_cfg, clock>>
    /\ UNCHANGED busVars
    /\ UNCHANGED nonQueueVars

IdleQueueCfg(enabled) ==
    [enable_command_queue |-> enabled, calls |-> 0]

(***************************************************************************)
(* Websocket handler (api/ws.py) on top of the event bus                   *)
(***************************************************************************)
\* stands for MAX_QUEUE_SIZE = 256, the maxsize of every subscriber queue
MaxQueueSize == 2
\* events published in one run
MaxPublish == 3

WsClients == {1, 2}
WsNames == {"demo", "hook"}
\* the `sessions` value of a subscribe frame: a list of names, or no list
SubscribeFrames ==
    [is_list : {TRUE}, sessions : {{}, {"demo"}, {"hook"}}]
    \cup {[is_list |-> FALSE, sessions |-> {}]}
Heartbeat == 0

\* taken: the event that last came out of the client's queue; out: the
\* frame last written to its socket (events are known by their ref)
NoClient == [state |-> "none", sub_id |-> -1, filter |-> {},
             sender |-> "none", taken |-> Heartbeat, out |-> Heartbeat]

\* events other parts of the dashboard publish: a session event carries
\* payload.name, a usage event no name at all (events with
\* payload.session_name come from the typing frames below)
BusEvents ==
    {Event("session.closed", "demo", "", Len(published) + 1),
     Event("usage.updated", "", "", Len(published) + 1)}

\* client 1 is the one that sends subscribe and typing frames, client 2 the
\* one that goes away
Talkers == {1}
Leavers == {2}

\* EventBus.subscribe: sub_id = next(self._counter)
Subscribe(cap) ==
    /\ sub_counter' = sub_counter + 1
    /\ subscribers' = [i \in DOMAIN subscribers \cup {sub_counter} |->
                          IF i = sub_counter THEN <<>> ELSE subscribers[i]]
    /\ sub_cap' = [i \in DOMAIN sub_cap \cup {sub_counter} |->
                      IF i = sub_counter THEN cap ELSE sub_cap[i]]
    /\ UNCHANGED published

\* EventBus.unsubscribe: self._subscribers.pop(subscriber_id, None)
Unsubscribe(id) ==
    /\ subscribers' = [i \in DOMAIN subscribers \ {id} |-> subscribers[i]]
    /\ sub_cap' = [i \in DOMAIN sub_cap \ {id} |-> sub_cap[i]]
    /\ UNCHANGED <<published, sub_counter>>

\* a filter that looks at payload.name only
FilterName_nameonly(e) == e.name

\* session_name = payload.get("name") or payload.get("session_name")
FilterName(e) == IF e.name # "" THEN e.name ELSE e.session_name

\* the event gets past `if subscribed_sessions: ... continue`
PassesFilter(filter, e) ==
    \/ filter = {}
    \/ FilterName(e) = ""
    \/ FilterName(e) \in filter

\* a publisher other than the websocket handler calls publish
BusPublish(e) ==
    /\ Len(published) < MaxPublish
    /\ Publish(e)
    /\ UNCHANGED ws
    /\ UNCHANGED <<sessions, events_tbl, clock>>
    /\ UNCHANGED nonWsVars

\* websocket_handler up to the start of its two loops: subscribe with a
\* fresh queue and send the first heartbeat
WsConnect(c) ==
    /\ ws[c].state = "none"
    /\ Subscribe(MaxQueueSize)
    /\ ws' = [ws EXCEPT ![c] = [NoClient EXCEPT
                 !.state = "open", !.sub_id = sub_counter,
                 !.sender = "running", !.out = Heartbeat]]
    /\ UNCHANGED <<sessions, events_tbl, clock>>
    /\ UNCHANGED nonWsVars

\* send_events: an event comes out of the queue; it is dropped by the filter
\* or written to the socket.  On a socket that has closed meanwhile nothing
\* is written and the loop ends.
WsSendEvent(c) ==
    /\ ws[c].state \in {"open", "closing"}
    /\ ws[c].sender = "running"
    /\ ws[c].sub_id \in DOMAIN subscribers
    /\ subscribers[ws[c].sub_id] # <<>>
    /\ LET e == Head(subscribers[ws[c].sub_id])
       IN ws' = [ws EXCEPT
                   ![c].taken = e.ref,
                   ![c].out = IF ws[c].state = "open"
                                 /\ PassesFilter(ws[c].filter, e)
                              THEN e.ref ELSE @,
                   ![c].sender = IF ws[c].state = "open"
                                 THEN "running" ELSE "stopped"]
    /\ subscribers' = [subscribers EXCEPT ![ws[c].sub_id] = Tail(@)]
    /\ UNCHANGED <<published, sub_cap, sub_counter>>
    /\ UNCHANGED <<sessions, events_tbl, clock>>
    /\ UNCHANGED nonWsVars

\* send_events: queue.get() timed out after HEARTBEAT_INTERVAL
WsHeartbeat(c) ==
    /\ ws[c].state = "open"
    /\ ws[c].sender = "running"
    /\ subscribers[ws[c].sub_id] = <<>>
    /\ ws[c].out # Heartbeat
    /\ ws' = [ws EXCEPT ![c].out = Heartbeat]
    /\ UNCHANGED busVars
    /\ UNCHANGED <<sessions, events_tbl, clock>>
    /\ UNCHANGED nonWsVars

\* {"type": "subscribe", "sessions": ...}: clear(), then update() for a list
WsSubscribe(c, frame) ==
    /\ ws[c].state = "open"
    /\ ws' = [ws EXCEPT ![c].filter =
                 IF frame.is_list THEN frame.sessions ELSE {}]
    /\ ws[c].filter # ws'[c].filter
    /\ UNCHANGED busVars
    /\ UNCHANGED <<sessions, events_tbl, clock>>
    /\ UNCHANGED nonWsVars

\* {"type": "typing", "session": name}: relayed as typing.user
WsTyping(c, name) ==
    /\ ws[c].state = "open"
    /\ name # ""
    /\ Len(published) < MaxPublish
    /\ Publish(Event("typing.user", "", name, Len(published) + 1))
    /\ UNCHANGED ws
    /\ UNCHANGED <<sessions, events_tbl, clock>>
    /\ UNCHANGED nonWsVars

\* the peer closes: ws.closed becomes true while the handler still runs
WsClose(c) ==
    /\ ws[c].state = "open"
    /\ ws' = [ws EXCEPT ![c].state = "closing"]
    /\ UNCHANGED busVars
    /\ UNCHANGED <<sessions, events_tbl, clock>>
    /\ UNCHANGED nonWsVars

\* end of the handler: send_task.cancel() and, in finally, unsubscribe
WsDisconnect(c) ==
    /\ ws[c].state = "closing"
    /\ Unsubscribe(ws[c].sub_id)
    /\ ws' = [ws EXCEPT ![c].state = "gone", ![c].sender = "stopped"]
    /\ UNCHANGED <<sessions, events_tbl, clock>>
    /\ UNCHANGED nonWsVars

(***************************************************************************)
(* Send-keys protocol (ssh.send_to_tmux; send_to_tmux of agent-bridge.py   *)
(* and slack-bridge.py has the same three steps with time.sleep).  Time is *)
(* in milliseconds.                                                        *)
(***************************************************************************)
\* send_to_tmux calls in one run
MaxSends == 2
\* clock ticks in one run
MaxSendTicks == 4

SEND_KEYS_DELAY == 300
TickMs == 150
Senders == {1, 2}
\* return codes of run_ssh: 0, or 1 for a failure or a timeout
ReturnCodes == {0, 1}
Running == -1

IdleSender == [pc |-> "idle", id |-> 0, slept_from |-> 0]
\* log: the remote invocations in the order they were issued; results: what
\* each finished call returned
IdleSend == [task |-> [s \in Senders |-> IdleSender], log |-> <<>>,
             results |-> <<>>, ticks |-> 0]

Invocation(id, keys, at) == [id |-> id, keys |-> keys, at |-> at, rc |-> Running]

\* the invocation of call `id` that is still running gets its return code
Returned(log, id, rc) ==
    [i \in 1..Len(log) |->
        IF log[i].id = id /\ log[i].rc = Running
        THEN [log[i] EXCEPT !.rc = rc] ELSE log[i]]

\* time passes
SendTick ==
    /\ send.ticks < MaxSendTicks
    /\ clock' = clock + TickMs
    /\ send' = [send EXCEPT !.ticks = @ + 1]
    /\ UNCHANGED nonSendVars

\* step 1: run_ssh(host, "tmux send-keys -t <session> <message>") is issued
SendText(s) ==
    /\ send.task[s].pc = "idle"
    /\ Len(send.results) < MaxSends
    /\ LET id == Len(send.results) + 1
       IN send' = [send EXCEPT
                     !.task[s] = [IdleSender EXCEPT !.pc = "text", !.id = id],
                     !.log = Append(@, Invocation(id, "text", clock)),
                     !.results = Append(@, "running")]
    /\ UNCHANGED clock
    /\ UNCHANGED nonSendVars

\* it returns: `if rc != 0: return False`, else asyncio.sleep starts
SendTextReturn(s, rc) ==
    /\ send.task[s].pc = "text"
    /\ LET id == send.task[s].id
       IN send' = [send EXCEPT
                     !.log = Returned(@, id, rc),
                     !.task[s] = IF rc # 0 THEN IdleSender
                                 ELSE [@ EXCEPT !.pc = "sleep",
                                                !.slept_from = clock],
                     !.results[id] = IF rc # 0 THEN "false" ELSE @]
    /\ UNCHANGED clock
    /\ UNCHANGED nonSendVars

\* an Enter that does not wait for the pause
SendEnter_nowait(s) ==
    /\ send.task[s].pc = "sleep"
    /\ send' = [send EXCEPT
                  !.task[s].pc = "enter",
                  !.log = Append(@, Invocation(send.task[s].id, "Enter", clock))]
    /\ UNCHANGED clock
    /\ UNCHANGED nonSendVars

\* step 2: the sleep of SEND_KEYS_DELAY is over and
\* run_ssh(host, "tmux send-keys -t <session> Enter") is issued
SendEnter(s) ==
    /\ send.task[s].pc = "sleep"
    /\ clock >= send.task[s].slept_from + SEND_KEYS_DELAY
    /\ send' = [send EXCEPT
                  !.task[s].pc = "enter",
                  !.log = Append(@, Invocation(send.task[s].id, "Enter", clock))]
    /\ UNCHANGED clock
    /\ UNCHANGED nonSendVars

\* return rc == 0
SendEnterReturn(s, rc) ==
    /\ send.task[s].pc = "enter"
    /\ LET id == send.task[s].id
       IN send' = [send EXCEPT
                     !.log = Returned(@, id, rc),
                     !.task[s] = IdleSender,
                     !.results[id] = IF rc = 0 THEN "true" ELSE "false"]
    /\ UNCHANGED clock
    /\ UNCHANGED nonSendVars

(***************************************************************************)
(* Usage monitor (services/usage_service.py, workers/usage_poller.py).     *)
(* A *_remaining column holds an integer, or NULL when the response had no *)
(* such header; NULL is written NoHeader here.                             *)
(***************************************************************************)
\* provider iterations of _poll_once in one run
MaxUsageSteps == 3

LIMIT_TYPES == <<"requests", "input_tokens", "output_tokens", "tokens">>
LimitKinds == {LIMIT_TYPES[i] : i \in DOMAIN LIMIT_TYPES}
NoHeader == -1

\* UsageService.providers for the keys that can be configured
ProviderLists == {<<"anthropic">>, <<"anthropic", "openai">>}

\* limit kinds whose *-remaining header the responses carry in this model
PolledKinds == {"requests", "tokens"}
RemainingValues == {0, 1}
StatusCodes == {200, 429, 500}

NoRemaining == [k \in LimitKinds |-> NoHeader]

\* what poll_provider can return: status 0 and no header field when the call
\* raised, otherwise the status of the response and its parsed headers
PollResults ==
    {[poll_status_code |-> 0, remaining |-> NoRemaining]}
    \cup {[poll_status_code |-> c, remaining |-> r] :
             c \in StatusCodes,
             r \in {f \in [LimitKinds -> RemainingValues \cup {NoHeader}] :
                       \A k \in LimitKinds \ PolledKinds : f[k] = NoHeader}}

Snapshot(provider, polled_at, result) ==
    [provider |-> provider, polled_at |-> polled_at,
     poll_status_code |-> result.poll_status_code,
     remaining |-> result.remaining]

\* fetchone found no row
NoSnapshot == Snapshot("", -1, [poll_status_code |-> -1, remaining |-> NoRemaining])

IdleUsage ==
    [providers |-> <<"anthropic">>, next |-> 1, any_reset |-> FALSE,
     snaps |-> <<>>, steps |-> 0]

\* SELECT * FROM usage_snapshots WHERE provider = ? AND poll_status_code IN
\* (200, 429) ORDER BY polled_at DESC LIMIT 1
get_previous_snapshot(snaps, provider) ==
    LET rows == {i \in 1..Len(snaps) :
                    /\ snaps[i].provider = provider
                    /\ snaps[i].poll_status_code \in {200, 429}}
    IN IF rows = {} THEN NoSnapshot
       ELSE snaps[CHOOSE i \in rows :
                     \A j \in rows : snaps[j].polled_at <= snaps[i].polled_at]

\* a comparison that also counts an unchanged value as a reset
detect_reset_geq(current, previous) ==
    IF previous = NoSnapshot THEN <<>>
    ELSE SelectSeq(LIMIT_TYPES,
                   LAMBDA k : /\ current.remaining[k] # NoHeader
                              /\ previous.remaining[k] # NoHeader
                              /\ current.remaining[k] >= previous.remaining[k])

\* UsageService.detect_reset
detect_reset(current, previous) ==
    IF previous = NoSnapshot THEN <<>>
    ELSE SelectSeq(LIMIT_TYPES,
                   LAMBDA k : /\ current.remaining[k] # NoHeader
                              /\ previous.remaining[k] # NoHeader
                              /\ current.remaining[k] > previous.remaining[k])

\* UsageService.detect_limit_reached
detect_limit_reached(snapshot) ==
    SelectSeq(LIMIT_TYPES,
              LAMBDA k : /\ snapshot.remaining[k] # NoHeader
                         /\ snapshot.remaining[k] <= 0)

UsageEvent(type, snapshot, limit_type) ==
    Event(type, "", "",
          [provider |-> snapshot.provider, limit_type |-> limit_type,
           polled_at |-> snapshot.polled_at])

RECURSIVE PutAll(_, _, _)
PutAll(q, cap, evs) ==
    IF evs = <<>> THEN q ELSE PutAll(PutNowait(q, cap, Head(evs)), cap, Tail(evs))

\* one EventBus.publish per event of evs, in order
PublishAll(evs) ==
    /\ published' = published \o evs
    /\ subscribers' = [i \in DOMAIN subscribers |->
                          PutAll(subscribers[i], sub_cap[i], evs)]
    /\ UNCHANGED <<sub_cap, sub_counter>>

\* one iteration of the provider loop of _poll_once; the loop starts over
\* with any_reset = False once the list is through (the command queue is
\* switched off, so nothing follows the loop).  Only this task writes the
\* table, and the clock moves on while the provider is asked.
UsagePollStep(result) ==
    /\ usage.steps < MaxUsageSteps
    /\ LET provider == usage.providers[usage.next]
           previous == get_previous_snapshot(usage.snaps, provider)
           snapshot == Snapshot(provider, clock, result)
           at_limit == detect_limit_reached(snapshot)
           resets == detect_reset(snapshot, previous)
           last == usage.next = Len(usage.providers)
       IN /\ usage' = [usage EXCEPT
                         !.snaps = Append(@, snapshot),
                         !.steps = @ + 1,
                         !.next = IF last THEN 1 ELSE @ + 1,
                         !.any_reset =
                             IF last THEN FALSE
                             ELSE IF snapshot.poll_status_code = 0 THEN @
                             ELSE @ \/ resets # <<>>]
          /\ PublishAll(
               IF snapshot.poll_status_code = 0 THEN <<>>
               ELSE <<UsageEvent("usage.updated", snapshot, "")>>
                    \o [i \in 1..Len(at_limit) |->
                           UsageEvent("usage.limit_reached", snapshot, at_limit[i])]
                    \o [i \in 1..Len(resets) |->
                           UsageEvent("usage.reset", snapshot, resets[i])])
    /\ clock' = clock + 1
    /\ UNCHANGED nonUsageVars

(***************************************************************************)
(* Shell-output capture (capture_shell_output and _capture_and_post_output *)
(* of agent-bridge.py; slack-bridge.py has the same function and posts to  *)
(* the Slack thread).  Time is in seconds.  A pane content is its sequence *)
(* of lines, "" being <<>>; no line of the model is blank.                 *)
(***************************************************************************)
_SHELL_NAMES == {"bash", "zsh", "sh", "fish", "dash", "ksh", "tcsh", "csh"}

\* what get_pane_command can return: "" when ssh failed
PaneCommands == {"bash", "BASH", "zsh", "claude", ""}

\* str.lower on the pane commands
Lower(cmd) == IF cmd = "BASH" THEN "bash" ELSE cmd

IsShell(cmd) == Lower(cmd) \in _SHELL_NAMES

\* what capture_pane_content can return: "" when ssh failed or timed out
PaneContents == {<<>>, <<"$ ls">>, <<"$ ls", "a.txt">>}

\* seconds a remote call takes before it returns
SshDurations == {0, 1}

initial_sleep == 1
poll_interval == 1
stable_count == 2
max_wait == 30

NoCapture == <<"(no capture)">>
NoCommand == "(not inspected)"
NoneResult == [none |-> TRUE, lines |-> <<>>]
StrResult(lines) == [none |-> FALSE, lines |-> lines]

IdleCapture ==
    [pc |-> "idle", pre_content |-> <<>>, last_content |-> <<>>,
     stable_hits |-> 0, deadline |-> 0, result |-> NoneResult,
     posted |-> FALSE, first_cmd |-> NoCommand, last_cmd |-> NoCommand,
     cur |-> NoCapture, prev |-> NoCapture]

\* length of the common prefix of two line lists (the zip loop)
RECURSIVE CommonLen(_, _)
CommonLen(a, b) ==
    IF a = <<>> \/ b = <<>> \/ Head(a) # Head(b) THEN 0
    ELSE 1 + CommonLen(Tail(a), Tail(b))

\* the lines of post that follow its common prefix with pre
NewLines(pre, post) == SubSeq(post, CommonLen(pre, post) + 1, Len(post))

\* time.sleep(1.0) at the top of capture_shell_output
CaptureStart ==
    /\ capture.pc = "start"
    /\ capture' = [capture EXCEPT !.pc = "inspect"]
    /\ clock' = clock + initial_sleep
    /\ UNCHANGED nonCaptureVars

\* first get_pane_command: None for a non-shell, else the loop is set up
CaptureInspect(cmd, d) ==
    /\ capture.pc = "inspect"
    /\ clock' = clock + d
    /\ capture' = IF ~IsShell(cmd)
              THEN [capture EXCEPT !.pc = "return", !.result = NoneResult,
                               !.first_cmd = cmd]
              ELSE [capture EXCEPT !.pc = "loop", !.first_cmd = cmd,
                               !.last_content = <<>>, !.stable_hits = 0,
                               !.deadline = clock' + max_wait]
    /\ UNCHANGED nonCaptureVars

\* while time.monotonic() < deadline
CaptureLoopTest ==
    /\ capture.pc = "loop"
    /\ capture' = [capture EXCEPT !.pc = IF clock < capture.deadline THEN "capture"
                                 ELSE "recheck"]
    /\ UNCHANGED clock
    /\ UNCHANGED nonCaptureVars

\* capture_pane_content and the stability test of one iteration
CapturePane(current, d) ==
    /\ capture.pc = "capture"
    /\ clock' = clock + d
    /\ capture' = [capture EXCEPT
                 !.prev = capture.cur,
                 !.cur = current,
                 !.stable_hits = IF current = <<>> THEN @
                                 ELSE IF current = capture.last_content THEN @ + 1
                                 ELSE 0,
                 !.last_content = IF current = <<>> \/ current = capture.last_content
                                  THEN @ ELSE current,
                 !.pc = IF current = <<>> THEN "recheck"
                        ELSE IF /\ current = capture.last_content
                                /\ capture.stable_hits + 1 >= stable_count
                             THEN "recheck"
                        ELSE "sleep"]
    /\ UNCHANGED nonCaptureVars

\* time.sleep(poll_interval)
CapturePollSleep ==
    /\ capture.pc = "sleep"
    /\ capture' = [capture EXCEPT !.pc = "loop"]
    /\ clock' = clock + poll_interval
    /\ UNCHANGED nonCaptureVars

\* a final step that trusts the first inspection
CaptureRecheck_trusting(cmd, d) ==
    /\ capture.pc = "recheck"
    /\ clock' = clock + d
    /\ capture' = [capture EXCEPT
                 !.pc = "return",
                 !.last_cmd = cmd,
                 !.result = IF capture.last_content = <<>> THEN StrResult(<<>>)
                            ELSE StrResult(NewLines(capture.pre_content,
                                                    capture.last_content))]
    /\ UNCHANGED nonCaptureVars

\* second get_pane_command, then the diff against pre_content
CaptureRecheck(cmd, d) ==
    /\ capture.pc = "recheck"
    /\ clock' = clock + d
    /\ capture' = [capture EXCEPT
                 !.pc = "return",
                 !.last_cmd = cmd,
                 !.result = IF ~IsShell(cmd) THEN NoneResult
                            ELSE IF capture.last_content = <<>> THEN StrResult(<<>>)
                            ELSE StrResult(NewLines(capture.pre_content,
                                                    capture.last_content))]
    /\ UNCHANGED nonCaptureVars

\* _capture_and_post_output after the thread has returned: nothing for None
\* or for blank output, else post_message, which may raise
CapturePost(ok) ==
    /\ capture.pc = "return"
    /\ capture' = [capture EXCEPT
                 !.pc = "done",
                 !.posted = /\ ~capture.result.none
                            /\ capture.result.lines # <<>>
                            /\ ok]
    /\ UNCHANGED clock
    /\ UNCHANGED nonCaptureVars

(***************************************************************************)
(* Bridge webhook (receive_bridge_event of api/sessions.py) on top of      *)
(* MessageService.ingest_bridge_event.  One request is in flight at a time *)
(* and its ingestion runs as task HookTask.                                *)
(***************************************************************************)
\* requests answered in one run
MaxHookRequests == 3

HookTask == 1

\* request bodies that request.json() cannot parse
UnparsableBodies == {"", "not json"}
\* JSON documents that are no object
NonObjectBodies == {"[]", "null"}

Response(status, body) == [status |-> status, body |-> body]
Accepted == Response(202, "accepted: true")
InvalidJson == Response(400, "error: INVALID_JSON")

IdleHook == [responses |-> <<>>, ingested |-> 0]

\* ingest_bridge_event was awaited and the handler has not returned yet
HookPending == ingest_calls > hook.ingested

HookFree == ~HookPending /\ Len(hook.responses) < MaxHookRequests

\* request.json() raises: return error_response(400, "INVALID_JSON", ...)
HookBadJson(body) ==
    /\ HookFree
    /\ hook' = [hook EXCEPT !.responses = Append(@, InvalidJson)]
    /\ UNCHANGED nonHookVars

\* the body parses to a list or null: event_data.get raises inside
\* ingest_bridge_event, the handler logs it and returns 202
HookNotObject(body) ==
    /\ HookFree
    /\ hook' = [hook EXCEPT !.responses = Append(@, Accepted)]
    /\ UNCHANGED nonHookVars

\* the body parses to an object: ingest_bridge_event runs up to its first
\* database statement
HookEvent(ev) ==
    /\ HookFree
    /\ BridgeReceive(HookTask, ev)

\* a database statement of the ingestion raises; the handler catches it
HookIngestRaises ==
    /\ ingest[HookTask].pc \in {"insert", "audit"}
    /\ ingest' = [ingest EXCEPT ![HookTask] = IdleTask]
    /\ UNCHANGED <<sessions, messages, events_tbl, ingest_calls>>
    /\ UNCHANGED nonMsgVars
    /\ UNCHANGED busVars

\* return json_ok({"accepted": True}, status=202)
HookAccepted ==
    /\ HookPending
    /\ ingest[HookTask].pc = "idle"
    /\ hook' = [hook EXCEPT !.responses = Append(@, Accepted),
                            !.ingested = ingest_calls]
    /\ UNCHANGED nonHookVars

(***************************************************************************)
(* Session API (api/sessions.py on SessionService).  In this part a        *)
(* session name is its sequence of characters, and each handler is one     *)
(* step.                                                                   *)
(***************************************************************************)
\* requests answered in one run
MaxApiCalls == 3

MaxNameLen == 64

\* the characters of [a-zA-Z0-9_-]
NameChars ==
    {"a","b","c","d","e","f","g","h","i","j","k","l","m","n","o","p","q","r",
     "s","t","u","v","w","x","y","z","A","B","C","D","E","F","G","H","I","J",
     "K","L","M","N","O","P","Q","R","S","T","U","V","W","X","Y","Z","0","1",
     "2","3","4","5","6","7","8","9","_","-"}

\* SESSION_NAME_RE.match(name) and len(name) <= 64
is_valid_session_name(name) ==
    /\ name # <<>>
    /\ \A i \in 1..Len(name) : name[i] \in NameChars
    /\ Len(name) <= MaxNameLen

LongName == [i \in 1..(MaxNameLen + 1) |-> "x"]

\* names a request path or a tmux listing can carry
ApiNames == {<<"d","e","m","o">>, <<"a","+","b">>, LongName}
\* "name" values of a POST /api/sessions body
RawNames == ApiNames \cup {<<" ","d","e","m","o"," ">>, <<" ">>}
\* "host" values of a POST /api/sessions body
RawHosts == {"", "h1", "elsewhere"}
\* "agent_type" of a PATCH body, or no such key
PatchAgents == {"claude", "bogus", "(no key)"}
\* "message" values of a send body
SendMessages == {<<"h","i">>, <<" ">>}

ApiResponse(op, name, status, code, ran) ==
    [op |-> op, name |-> name, status |-> status, code |-> code, ran |-> ran]

IdleApi ==
    [calls |-> 0, agent_type |-> [n \in ApiNames |-> ""],
     last |-> ApiResponse("", <<>>, 0, "", {})]

ApiFree == api.calls < MaxApiCalls

\* the handler returns: status and error code, and the remote commands it
\* had run for the name
Answer(op, name, status, code, ran) ==
    api' = [api EXCEPT !.calls = @ + 1,
                       !.last = ApiResponse(op, name, status, code, ran)]

\* SessionService.create_session hands (host, name, working_dir) to
\* ssh.create_tmux_session(host, name): the call raises TypeError and no
\* command is sent.  "true" and "false" are the results the handler expects.
create_session(name, host) == "raises"

\* the reconciler finds a tmux session without a row, inserts it and
\* publishes session.created; tmux accepts the names of ApiNames
Discover(name) ==
    /\ sessions[name] = NoRow
    /\ sessions' = [sessions EXCEPT ![name] = SessionRow("active", "h1", NoTime)]
    /\ Publish(Event("session.created", name, "", "active"))
    /\ UNCHANGED <<api, clock>>
    /\ UNCHANGED nonApiVars

\* GET /api/sessions with no filter: SELECT * FROM sessions, one entry per
\* stored row carrying the table's columns (the table has no message_count
\* column; only GET /api/sessions/{name} adds that key)
list_sessions ==
    {[name |-> n, host |-> sessions[n].host, status |-> sessions[n].status] :
        n \in {m \in DOMAIN sessions : sessions[m] # NoRow}}

\* GET /api/sessions/{name}
ApiGet(name) ==
    /\ ApiFree
    /\ IF sessions[name] = NoRow
       THEN Answer("get", name, 404, "NOT_FOUND", {})
       ELSE Answer("get", name, 200, "", {})
    /\ UNCHANGED <<sessions, clock>>
    /\ UNCHANGED busVars
    /\ UNCHANGED nonApiVars

\* a handler that goes straight to the creation
ApiCreate_unchecked(raw, raw_host) ==
    /\ ApiFree
    /\ LET name == Strip(raw)
           host == IF raw_host = "" THEN "h1" ELSE raw_host
       IN /\ name \in ApiNames
          /\ Answer("create", name, 500, "INTERNAL", {})
          /\ UNCHANGED <<sessions, clock>>
          /\ UNCHANGED busVars
    /\ UNCHANGED nonApiVars

\* POST /api/sessions
ApiCreate(raw, raw_host) ==
    /\ ApiFree
    /\ LET name == Strip(raw)
           host == IF raw_host = "" THEN "h1" ELSE raw_host
           created == create_session(name, host)
           quiet == /\ UNCHANGED <<sessions, clock>>
                    /\ UNCHANGED busVars
       IN IF name = <<>>
          THEN Answer("create", name, 400, "MISSING_NAME", {}) /\ quiet
          ELSE IF ~is_valid_session_name(name)
          THEN Answer("create", name, 400, "INVALID_NAME", {}) /\ quiet
          ELSE IF host \notin Hosts
          THEN Answer("create", name, 400, "INVALID_HOST", {}) /\ quiet
          ELSE IF sessions[name] # NoRow
          THEN Answer("create", name, 409, "ALREADY_EXISTS", {}) /\ quiet
          ELSE IF created = "raises"
          THEN Answer("create", name, 500, "INTERNAL", {}) /\ quiet
          ELSE IF created = "false"
          THEN Answer("create", name, 500, "TMUX_CREATE_FAILED",
                      {"new-session"}) /\ quiet
          ELSE /\ sessions' = [sessions EXCEPT
                                 ![name] = SessionRow("active", host, NoTime)]
               /\ Publish(Event("session.created", name, "", "active"))
               /\ Answer("create", name, 201, "", {"new-session"})
               /\ UNCHANGED clock
    /\ UNCHANGED nonApiVars

\* DELETE /api/sessions/{name}: kill_session looks the name up on the hosts
\* and kills it where found
ApiDelete(name, found) ==
    /\ ApiFree
    /\ IF sessions[name] = NoRow
       THEN /\ Answer("delete", name, 404, "NOT_FOUND", {})
            /\ UNCHANGED <<sessions, clock>>
            /\ UNCHANGED busVars
       ELSE /\ sessions' = [sessions EXCEPT ![name].status = "closed",
                                            ![name].closed_at = clock]
            /\ clock' = clock + 1
            /\ Publish(Event("session.closed", name, "", "closed"))
            /\ Answer("delete", name, 200, "",
                      {"has-session"} \cup
                        IF found THEN {"kill-session"} ELSE {})
    /\ UNCHANGED nonApiVars

\* PATCH /api/sessions/{name}
ApiPatch(name, agent) ==
    /\ ApiFree
    /\ UNCHANGED <<sessions, clock>>
    /\ UNCHANGED busVars
    /\ UNCHANGED nonApiVars
    /\ IF sessions[name] = NoRow
       THEN Answer("patch", name, 404, "NOT_FOUND", {})
       ELSE IF agent = "(no key)"
       THEN Answer("patch", name, 400, "NO_UPDATES", {})
       ELSE IF agent \notin {"claude", "codex", "gemini", "unknown"}
       THEN Answer("patch", name, 400, "INVALID_AGENT_TYPE", {})
       ELSE api' = [api EXCEPT
                      !.calls = @ + 1,
                      !.agent_type[name] = agent,
                      !.last = ApiResponse("patch", name, 200, "", {})]

\* POST /api/sessions/{name}/send: find_host asks the hosts for the name,
\* then send_to_session types the message
ApiSend(name, message, found, sent_ok) ==
    /\ ApiFree
    /\ UNCHANGED <<sessions, clock>>
    /\ UNCHANGED busVars
    /\ UNCHANGED nonApiVars
    /\ IF Strip(message) = <<>>
       THEN Answer("send", name, 400, "MISSING_MESSAGE", {})
       ELSE IF ~found
       THEN Answer("send", name, 404, "SESSION_NOT_FOUND", {"has-session"})
       ELSE IF ~sent_ok
       THEN Answer("send", name, 500, "SEND_FAILED",
                   {"has-session", "send-keys"})
       ELSE Answer("send", name, 200, "", {"has-session", "send-keys"})

\* GET /api/sessions/{name}/messages
ApiMessages(name) ==
    /\ ApiFree
    /\ IF sessions[name] = NoRow
       THEN Answer("messages", name, 404, "NOT_FOUND", {})
       ELSE Answer("messages", name, 200, "", {})
    /\ UNCHANGED <<sessions, clock>>
    /\ UNCHANGED busVars
    /\ UNCHANGED nonApiVars

\* POST /api/sessions/{name}/sync with no platform configured
ApiSync(name) ==
    /\ ApiFree
    /\ IF sessions[name] = NoRow
       THEN Answer("sync", name, 404, "NOT_FOUND", {})
       ELSE Answer("sync", name, 200, "", {})
    /\ UNCHANGED <<sessions, clock>>
    /\ UNCHANGED busVars
    /\ UNCHANGED nonApiVars

(***************************************************************************)
(* Auth middleware (auth.py).  A path is a sequence of pieces, no piece a  *)
(* prefix of another, so that startswith on pieces is startswith on        *)
(* characters.  A cookie value is a sequence of pieces too: a run of       *)
(* digits, a dot, other text, or a hex digest.                             *)
(***************************************************************************)
\* clock ticks in one run
MaxAuthTicks == 1
\* successful logins in one run
MaxLogins == 1

COOKIE_MAX_AGE == 86400
NO_AUTH_PREFIXES ==
    {<<"/", "healthz">>, <<"/", "api", "/", "hooks", "/">>,
     <<"/", "api", "/", "install.sh">>, <<"/", "static", "/">>,
     <<"/", "login">>, <<"/", "logout">>}

WsPath == <<"/", "ws">>
ApiPrefix == <<"/", "api", "/">>
Paths ==
    {<<"/", "healthz">>, <<"/", "api", "/", "hooks", "/", "event">>,
     <<"/", "api", "/", "hooks">>, <<"/", "api", "/", "install.sh">>,
     <<"/", "static", "/", "app.js">>, <<"/", "login">>, <<"/", "logout">>,
     WsPath, <<"/", "api", "/", "sessions">>, <<"/", "sessions">>}

\* str.startswith
StartsWith(s, prefix) ==
    Len(prefix) <= Len(s) /\ SubSeq(s, 1, Len(prefix)) = prefix

\* a token written with a character outside ASCII (U+00E9)
NonAsciiToken == "s(U+00E9)cret"
Tokens == {"secret", "wrong", NonAsciiToken}
\* str.isascii()
IsAscii(s) == s # NonAsciiToken

\* Authorization header: absent, or a scheme piece followed by the rest
AuthorizationHeaders ==
    {<<>>} \cup {<<"Bearer ", t>> : t \in Tokens} \cup {<<"Basic ", "secret">>}

Digits(n) == [kind |-> "digits", n |-> n, key |-> ""]
Dot == [kind |-> ".", n |-> 0, key |-> ""]
Word == [kind |-> "text", n |-> 0, key |-> ""]

\* hmac.new(token.encode(), ts.encode(), hashlib.sha256).hexdigest(), one
\* digest per (key, message)
HmacHexdigest(key, ts_str) == [kind |-> "hmac", n |-> ts_str[1].n, key |-> key]

\* f"{ts}.{sig}" with ts = str(int(time.time()))
create_session_cookie(token, now) ==
    <<Digits(now), Dot, HmacHexdigest(token, <<Digits(now)>>)>>

\* validate_session_cookie: split at the first dot, int(ts_str), the expiry
\* test and the comparison of the signature (cookie values are ASCII)
validate_session_cookie(cookie_value, token, now) ==
    LET dots == {k \in 1..Len(cookie_value) : cookie_value[k].kind = "."}
    IN IF cookie_value = <<>> \/ dots = {} THEN FALSE
       ELSE LET d == CHOOSE k \in dots : \A j \in dots : k <= j
                ts_str == SubSeq(cookie_value, 1, d - 1)
                sig == SubSeq(cookie_value, d + 1, Len(cookie_value))
            IN IF ~(Len(ts_str) = 1 /\ ts_str[1].kind = "digits") THEN FALSE
               ELSE IF now - ts_str[1].n > COOKIE_MAX_AGE THEN FALSE
               ELSE sig = <<HmacHexdigest(token, ts_str)>>

\* "text/html" in Accept, for paths other than /api/... and /ws
is_browser_request(req) ==
    IF StartsWith(req.path, ApiPrefix) \/ req.path = WsPath
    THEN FALSE ELSE req.html

\* hmac.compare_digest on two str raises TypeError unless both are ASCII
CompareRaises(a, b) == ~IsAscii(a) \/ ~IsAscii(b)

\* the token after "Bearer ": auth_header[7:]
BearerToken(h) == IF Len(h) > 1 THEN h[2] ELSE ""

\* auth_middleware: what the request is answered with.  "handler" is
\* `return await handler(request)`; an exception that leaves the middleware
\* is answered 500 by the server.
auth_middleware(token, now, req) ==
    IF token = "" THEN "handler"
    ELSE IF \E prefix \in NO_AUTH_PREFIXES : StartsWith(req.path, prefix)
    THEN "handler"
    ELSE IF req.path = WsPath
    THEN IF req.query_token # "" /\ CompareRaises(req.query_token, token)
         THEN "500"
         ELSE IF req.query_token # "" /\ req.query_token = token
         THEN "handler"
         ELSE IF validate_session_cookie(req.cookie, token, now)
         THEN "handler"
         ELSE "401"
    ELSE IF validate_session_cookie(req.cookie, token, now) THEN "handler"
    ELSE IF req.authorization # <<>> /\ req.authorization[1] = "Bearer "
            /\ CompareRaises(BearerToken(req.authorization), token)
    THEN "500"
    ELSE IF req.authorization # <<>> /\ req.authorization[1] = "Bearer "
            /\ BearerToken(req.authorization) = token
    THEN "handler"
    ELSE IF is_browser_request(req) THEN "302"
    ELSE "401"

NoRequest ==
    [path |-> <<>>, authorization |-> <<>>, cookie |-> <<>>,
     query_token |-> "", html |-> FALSE, at |-> 0, resp |-> "none"]

IdleAuth(token) ==
    [token |-> token, jar |-> {}, ticks |-> 0, last |-> NoRequest]

\* cookies a client may present: none, one the server handed out, one signed
\* with another key, one whose timestamp is not a number, one without a dot
RequestCookies ==
    {<<>>} \cup auth.jar
    \cup {create_session_cookie("wrong", clock),
          <<Word, Dot, HmacHexdigest(auth.token, <<Digits(clock)>>)>>,
          <<Digits(clock)>>}

\* time passes
AuthTick(dt) ==
    /\ auth.ticks < MaxAuthTicks
    /\ clock' = clock + dt
    /\ auth' = [auth EXCEPT !.ticks = @ + 1]
    /\ UNCHANGED nonAuthVars

\* _login_submit with the right token: a cookie is set on the response
AuthLogin(token) ==
    /\ auth.token # ""
    /\ Cardinality(auth.jar) < MaxLogins
    /\ token # "" /\ ~CompareRaises(token, auth.token) /\ token = auth.token
    /\ auth' = [auth EXCEPT
                  !.jar = @ \cup {create_session_cookie(auth.token, clock)}]
    /\ auth'.jar # auth.jar
    /\ UNCHANGED clock
    /\ UNCHANGED nonAuthVars

\* one request goes through the middleware; auth.last keeps it and its
\* answer until the client has read the answer
AuthRequest(path, authorization, cookie, query_token, html) ==
    LET req == [path |-> path, authorization |-> authorization,
                cookie |-> cookie, query_token |-> query_token,
                html |-> html]
    IN /\ auth.last = NoRequest
       /\ auth' = [auth EXCEPT !.last =
                      [path |-> path, authorization |-> authorization,
                       cookie |-> cookie, query_token |-> query_token,
                       html |-> html, at |-> clock,
                       resp |-> auth_middleware(auth.token, clock, req)]]
       /\ UNCHANGED clock
       /\ UNCHANGED nonAuthVars

\* the client has read the answer
AuthAnswered ==
    /\ auth.last # NoRequest
    /\ auth' = [auth EXCEPT !.last = NoRequest]
    /\ UNCHANGED clock
    /\ UNCHANGED nonAuthVars

(***************************************************************************)
(* Rate limiter (rate_limit.py).  time.monotonic() is read in whole        *)
(* seconds.  A bucket's token count is a multiple of 1/window for such     *)
(* readings; the tokens field holds that count times the window, so one    *)
(* token is `window` units and one second refills max_tokens units.        *)
(***************************************************************************)
\* seconds the monotonic clock advances in one run
MaxRateClock == 3

\* in the dict's order, which _get_limit walks
_RATE_LIMITS ==
    <<[prefix |-> <<"/", "api", "/", "hooks", "/">>, max_req |-> 60, window |-> 60],
      [prefix |-> <<"/", "api", "/", "sessions">>, max_req |-> 30, window |-> 60],
      [prefix |-> ApiPrefix, max_req |-> 60, window |-> 60]>>
_DEFAULT_LIMIT == [prefix |-> <<>>, max_req |-> 120, window |-> 60]

RatePaths ==
    {<<"/", "api", "/", "sessions">>, <<"/", "api", "/", "sessions", "/", "demo">>,
     <<"/", "healthz">>, <<"/", "static", "/", "app.js">>, WsPath}
\* X-Forwarded-For: absent, or a list of addresses
ForwardedFor == {<<>>, <<"10.0.0.1", "10.0.0.7">>}
Peers == {"10.0.0.1"}

_get_limit(path) ==
    LET hits == {i \in 1..Len(_RATE_LIMITS) :
                    StartsWith(path, _RATE_LIMITS[i].prefix)}
    IN IF hits = {}
       THEN _DEFAULT_LIMIT
       ELSE _RATE_LIMITS[CHOOSE i \in hits : \A j \in hits : i <= j]

_client_ip(xff, remote) ==
    IF xff # <<>> THEN xff[1] ELSE IF remote = "" THEN "unknown" ELSE remote

RateKeys ==
    {<<_client_ip(xff, remote), _get_limit(path).prefix>> :
        xff \in ForwardedFor, remote \in Peers, path \in RatePaths}

NoBucket == [tokens |-> 0, last_refill |-> 0, max_tokens |-> 0, window |-> 0]

\* _RateBucket.__init__
_RateBucket(max_tokens, window, now) ==
    [tokens |-> max_tokens * window, last_refill |-> now,
     max_tokens |-> max_tokens, window |-> window]

\* consume without the min(): the refill is not capped at max_tokens
consume_uncapped(b, now) ==
    LET elapsed == now - b.last_refill
        tokens == b.tokens + elapsed * b.max_tokens
    IN IF tokens >= b.window
       THEN [ok |-> TRUE,
             bucket |-> [b EXCEPT !.tokens = tokens - b.window,
                                  !.last_refill = now]]
       ELSE [ok |-> FALSE,
             bucket |-> [b EXCEPT !.tokens = tokens, !.last_refill = now]]

\* _RateBucket.consume
consume(b, now) ==
    LET elapsed == now - b.last_refill
        tokens == Min(b.max_tokens * b.window,
                      b.tokens + elapsed * b.max_tokens)
    IN IF tokens >= b.window
       THEN [ok |-> TRUE,
             bucket |-> [b EXCEPT !.tokens = tokens - b.window,
                                  !.last_refill = now]]
       ELSE [ok |-> FALSE,
             bucket |-> [b EXCEPT !.tokens = tokens, !.last_refill = now]]

NoRateResponse == [status |-> 0, retry_after |-> 0, limited |-> FALSE]

\* since and admitted are kept for the properties (the code has no such
\* variables): the requests each bucket admitted at or after instant `since`
IdleRate == [now |-> 0, _buckets |-> [k \in RateKeys |-> NoBucket],
             since |-> 0, admitted |-> [k \in RateKeys |-> 0],
             last |-> NoRateResponse]

SkipsRateLimit(path) ==
    \/ path = <<"/", "healthz">>
    \/ StartsWith(path, <<"/", "static", "/">>)
    \/ path = WsPath

\* the monotonic clock moves on by a second
RateTick ==
    /\ rate.now < MaxRateClock
    /\ rate' = [rate EXCEPT !.now = @ + 1]
    /\ UNCHANGED nonRateVars

\* rate_limit_middleware for one request; status 200 stands for whatever
\* the handler answers
RateRequest(xff, remote, path) ==
    /\ IF SkipsRateLimit(path)
       THEN rate' = [rate EXCEPT !.last = [status |-> 200, retry_after |-> 0,
                                           limited |-> FALSE]]
       ELSE LET ip == _client_ip(xff, remote)
                limit == _get_limit(path)
                key == <<ip, limit.prefix>>
                bucket == IF rate._buckets[key] = NoBucket
                          THEN _RateBucket(limit.max_req, limit.window, rate.now)
                          ELSE rate._buckets[key]
                c == consume(bucket, rate.now)
            IN rate' = [rate EXCEPT
                          !._buckets[key] = c.bucket,
                          !.admitted[key] =
                              IF c.ok /\ rate.now >= rate.since
                              THEN @ + 1 ELSE @,
                          !.last = IF c.ok
                                   THEN [status |-> 200, retry_after |-> 0,
                                         limited |-> TRUE]
                                   ELSE [status |-> 429,
                                         retry_after |-> limit.window,
                                         limited |-> TRUE]]
    /\ UNCHANGED nonRateVars

(***************************************************************************)
(* Settings API (api/settings.py) on the kv table.  A JSON value is its    *)
(* type with the text str() gives for it; a kv key is the prefix with the  *)
(* setting's name.                                                         *)
(***************************************************************************)
DEFAULTS ==
    [dashboard_url |-> "https://aily.jiun.dev", ssh_hosts |-> "",
     discord_configured |-> "", slack_configured |-> "",
     enable_session_poller |-> "true", poll_interval |-> "30",
     enable_jsonl_ingester |-> "false", jsonl_scan_interval |-> "60"]
WRITABLE_KEYS ==
    {"dashboard_url", "ssh_hosts", "enable_session_poller", "poll_interval",
     "enable_jsonl_ingester", "jsonl_scan_interval"}
SETTING_PREFIX == "setting:"

\* app["config"] as Config() builds it: the values rendered by str(),
\* str().lower() and ",".join()
Config ==
    [ssh_hosts |-> "localhost", discord_bot_token |-> "",
     slack_bot_token |-> "", enable_session_poller |-> "true",
     poll_interval |-> "30", enable_jsonl_ingester |-> "false",
     jsonl_scan_interval |-> "60"]

JStr(text) == [type |-> "string", text |-> text]
JNum(text) == [type |-> "number", text |-> text]
BodyKeys == WRITABLE_KEYS \cup {"discord_configured", "totally_unknown_key"}
BodyValues == {JStr(""), JStr("45"), JNum("45")}

NoKv == [present |-> FALSE, value |-> ""]
KvKeys == {<<SETTING_PREFIX, k>> : k \in WRITABLE_KEYS}
NoPut == [key |-> "", value |-> JStr("")]
NoSettings == [k \in DOMAIN DEFAULTS |-> JNum("")]
IdleSettings == [kv |-> [k \in KvKeys |-> NoKv], put |-> NoPut,
                 got |-> NoSettings]

_get_runtime_settings ==
    [discord_configured |->
        IF Config.discord_bot_token # "" THEN "true" ELSE "false",
     slack_configured |->
        IF Config.slack_bot_token # "" THEN "true" ELSE "false"]

\* the dict get_settings returns
get_settings ==
    LET stored == [k \in DOMAIN DEFAULTS |->
                      IF /\ <<SETTING_PREFIX, k>> \in KvKeys
                         /\ settings.kv[<<SETTING_PREFIX, k>>].present
                      THEN settings.kv[<<SETTING_PREFIX, k>>].value
                      ELSE DEFAULTS[k]]
        runtime == [k \in DOMAIN DEFAULTS |->
                      IF k \in DOMAIN _get_runtime_settings
                      THEN _get_runtime_settings[k] ELSE stored[k]]
        hosts == [runtime EXCEPT !.ssh_hosts =
                     IF @ = "" THEN Config.ssh_hosts ELSE @]
    IN [hosts EXCEPT
          !.enable_session_poller = Config.enable_session_poller,
          !.poll_interval = Config.poll_interval,
          !.enable_jsonl_ingester = Config.enable_jsonl_ingester,
          !.jsonl_scan_interval = Config.jsonl_scan_interval]

\* GET /api/settings
GetSettings ==
    /\ settings' = [settings EXCEPT
                      !.got = [k \in DOMAIN DEFAULTS |-> JStr(get_settings[k])]]
    /\ UNCHANGED nonSettingsVars

\* PUT /api/settings with the body {key: value}
PutSettings(key, value) ==
    /\ settings' = [settings EXCEPT
                      !.kv = IF key \in WRITABLE_KEYS
                             THEN [@ EXCEPT ![<<SETTING_PREFIX, key>>] =
                                      [present |-> TRUE, value |-> value.text]]
                             ELSE @,
                      !.put = [key |-> key, value |-> value],
                      !.got = NoSettings]
    /\ UNCHANGED nonSettingsVars

(***************************************************************************)
(* One utterance on two paths: the bridge relays it to the webhook as      *)
(* message.relayed (handle_message of agent-bridge.py, handle_socket_event *)
(* of slack-bridge.py), and the sync worker later pulls the thread it was  *)
(* written in.  A Discord message has an id; a Slack message has a ts and, *)
(* when a person typed it in a client, a client_msg_id (NULL: no such key).*)
(***************************************************************************)
Utterances ==
    {[platform |-> "discord", id |-> <<"7">>, client_msg_id |-> NULL,
      text |-> <<"a">>],
     [platform |-> "slack", id |-> <<"1", ".", "5">>, client_msg_id |-> NULL,
      text |-> <<"a">>],
     [platform |-> "slack", id |-> <<"1", ".", "6">>,
      client_msg_id |-> <<"u", "1">>, text |-> <<"b">>]}

\* the source_id the bridge puts into the event: message.get("id", "") on
\* Discord, event.get("client_msg_id", event.get("ts", "")) on Slack
RelayedId(u) ==
    IF u.platform = "slack" /\ u.client_msg_id # NULL
    THEN u.client_msg_id ELSE u.id

\* the body handed to _fire_dashboard_event
RelayedEvent(u) ==
    [type |-> "message.relayed", session_name |-> "hook",
     platform |-> u.platform, content |-> u.text,
     ids |-> <<RelayedId(u), NULL>>]

\* the same utterance as conversations.replies / the Discord channel
\* history returns it
PulledMsg(u) == [id |-> u.id, content |-> u.text]

\* the bridge relays utterance u and the dashboard starts on the event
Relay(t, u) ==
    /\ u \in Utterances
    /\ BridgeReceive(t, RelayedEvent(u))

\* a sync pass over the thread of session "hook" that holds utterance u
Pull(t, u) ==
    /\ u \in Utterances
    /\ BatchStart(t, u.platform, "hook", <<PulledMsg(u)>>)

(***************************************************************************)
(* Transcript tail (services/jsonl_service.py, workers/jsonl_ingester.py). *)
(* A transcript line is known by its type and text; the sessions "hook"    *)
(* and "demo" run in one working directory, so discover_jsonl_path gives   *)
(* both the same file.                                                     *)
(***************************************************************************)
\* lines the transcript grows to in one run
MaxLines == 3

max_lines == 500
max_content_length == 5000
JsonlSessions == {"hook", "demo"}
TranscriptLines ==
    {[type |-> "user", text |-> <<"a">>],
     [type |-> "assistant", text |-> <<"b">>],
     [type |-> "tool_result", text |-> <<"c">>]}

\* hashlib.sha256(line.encode()).hexdigest()[:16] and [:32]
LineHash16(line) == <<"sha256[:16]", line.type>> \o line.text
LineHash32(line) == <<"sha256[:32]", line.type>> \o line.text

NoPass == [session_name |-> "", new_lines |-> <<>>, ingested |-> 0]
\* last: what the last pass parsed and stored; seen: the length of the file
\* at the session's last pass (both kept for the properties)
IdleJsonl == [file |-> <<>>, offset |-> [n \in JsonlSessions |-> <<>>],
              seen |-> [n \in JsonlSessions |-> 0], last |-> NoPass]

\* read_jsonl_tail: tail -<max_lines> of the file
read_jsonl_tail(file) ==
    IF Len(file) <= max_lines THEN file
    ELSE SubSeq(file, Len(file) - max_lines + 1, Len(file))

\* _extract_user_content / _extract_assistant_content, then the truncation
ExtractContent(line) ==
    LET content == Strip(line.text)
    IN IF Len(content) > max_content_length
       THEN Take(content, max_content_length) \o <<"...(truncated)">>
       ELSE content

parse_jsonl_lines(lines, session_name) ==
    LET kept == SelectSeq(lines, LAMBDA l :
                    l.type \in {"user", "assistant"} /\ ExtractContent(l) # <<>>)
    IN [i \in 1..Len(kept) |->
          MessageRow(session_name, ExtractContent(kept[i]), "jsonl",
                     LineHash16(kept[i]))]

\* a pass that takes the whole tail whatever the stored offset
new_lines_all(lines, last_line_hash) == lines

\* step 3 of ingest_for_session: the lines after the first one whose hash
\* is the stored offset; all of them when there is no offset or no match
new_lines(lines, last_line_hash) ==
    LET hits == {i \in 1..Len(lines) : LineHash32(lines[i]) = last_line_hash}
    IN IF last_line_hash = <<>> \/ hits = {}
       THEN lines
       ELSE SubSeq(lines, (CHOOSE i \in hits : \A j \in hits : i <= j) + 1,
                   Len(lines))

\* step 4: insert_or_ignore per message, message.new for each stored row
RECURSIVE InsertAll(_, _, _)
InsertAll(tbl, rows, evs) ==
    IF rows = <<>> THEN [tbl |-> tbl, evs |-> evs]
    ELSE LET row == Head(rows)
         IN InsertAll(InsertOrIgnore(tbl, row), Tail(rows),
                      IF RowCount(tbl, row) > 0
                      THEN Append(evs, Event("message.new", "",
                                        row.session_name,
                                        [content |-> row.content,
                                         source |-> "jsonl",
                                         source_id |-> NULL]))
                      ELSE evs)

\* the agent writes a line to its transcript
TranscriptAppend(line) ==
    /\ Len(jsonl.file) < MaxLines
    /\ jsonl' = [jsonl EXCEPT !.file = Append(@, line)]
    /\ UNCHANGED <<messages, busVars>>
    /\ UNCHANGED nonJsonlVars

\* ingest_for_session for one session of the scan
JsonlIngest(session_name) ==
    /\ LET lines == read_jsonl_tail(jsonl.file)
           fresh == new_lines(lines, jsonl.offset[session_name])
           done == InsertAll(messages,
                             parse_jsonl_lines(fresh, session_name), <<>>)
       IN IF lines = <<>> \/ fresh = <<>>
          THEN /\ jsonl' = [jsonl EXCEPT
                              !.seen[session_name] = Len(jsonl.file),
                              !.last = [session_name |-> session_name,
                                        new_lines |-> <<>>, ingested |-> 0]]
               /\ UNCHANGED <<messages, busVars>>
          ELSE /\ messages' = done.tbl
               /\ PublishAll(done.evs)
               /\ jsonl' = [jsonl EXCEPT
                              !.offset[session_name] =
                                  LineHash32(lines[Len(lines)]),
                              !.seen[session_name] = Len(jsonl.file),
                              !.last = [session_name |-> session_name,
                                        new_lines |-> fresh,
                                        ingested |-> Len(done.evs)]]
    /\ UNCHANGED nonJsonlVars

(***************************************************************************)
(* Life of a websocket handler (api/ws.py websocket_handler), from the     *)
(* upgrade to its return.  What travels over the socket is in the section  *)
(* on the event stream above; here only registration and cleanup.          *)
(***************************************************************************)
WsHandlers == {1, 2, 3}

\* pc: "none" before the request, "hello" while the initial heartbeat is
\* being sent, "open" inside the try block, "returned" after `return ws`;
\* tracked: the socket is in app["ws_clients"]
NoHandler == [pc |-> "none", sub_id |-> -1, tracked |-> FALSE, how |-> ""]
IdleHandlers == [c \in WsHandlers |-> NoHandler]

ws_clients == {c \in WsHandlers : handlers[c].tracked}

\* why the handler leaves its try block: the client closed, the socket
\* reported an error, or something raised
WsEndings == {"closed", "error", "raised"}

\* ws.prepare, ws_clients.add(ws), event_bus.subscribe(queue); the lock of
\* the bus is never held across an await, so subscribe does not suspend
WsAccept(c) ==
    /\ handlers[c].pc = "none"
    /\ Subscribe(MaxQueueSize)
    /\ handlers' = [handlers EXCEPT ![c] =
                       [NoHandler EXCEPT !.pc = "hello",
                                         !.sub_id = sub_counter,
                                         !.tracked = TRUE]]
    /\ UNCHANGED nonHandlersVars

\* the initial heartbeat: on an exception unsubscribe and return ws
WsHello(c, ok) ==
    /\ handlers[c].pc = "hello"
    /\ IF ok
       THEN /\ handlers' = [handlers EXCEPT ![c].pc = "open"]
            /\ UNCHANGED busVars
       ELSE /\ Unsubscribe(handlers[c].sub_id)
            /\ handlers' = [handlers EXCEPT ![c].pc = "returned",
                                            ![c].how = "hello"]
    /\ UNCHANGED nonHandlersVars

\* the try block ends; finally: ws_clients.discard(ws), unsubscribe
WsReturn(c, how) ==
    /\ handlers[c].pc = "open"
    /\ Unsubscribe(handlers[c].sub_id)
    /\ handlers' = [handlers EXCEPT ![c].pc = "returned",
                                    ![c].tracked = FALSE,
                                    ![c].how = how]
    /\ UNCHANGED nonHandlersVars

(***************************************************************************)
(* Background tasks of a bridge (agent-bridge.py; slack-bridge.py has the  *)
(* same _track_task and _fire_dashboard_event).  A task is known by the    *)
(* order in which it was spawned.                                          *)
(***************************************************************************)
\* tasks spawned in one run
MaxTasks == 4

\* spawned: coroutine and state of every task created; _background_tasks:
\* the set of that name
IdleTasks == [spawned |-> <<>>, _background_tasks |-> {}]

Task(coro) == [coro |-> coro, done |-> FALSE]

\* asyncio.create_task(coro)
create_task(coro) == Append(tasks.spawned, Task(coro))

\* _track_task: create the task, add it to the set, register _on_done
_track_task(coro) ==
    [spawned |-> create_task(coro),
     _background_tasks |->
         tasks._background_tasks \cup {Len(tasks.spawned) + 1}]

\* _fire_dashboard_event: loop.create_task(emit_dashboard_event(event))
_fire_dashboard_event ==
    [tasks EXCEPT !.spawned = create_task("emit_dashboard_event")]

RunningTasks(coro) ==
    {i \in 1..Len(tasks.spawned) :
        tasks.spawned[i].coro = coro /\ ~tasks.spawned[i].done}

\* gateway op 10 (Hello): identify, then spawn the heartbeat
GatewayHello ==
    /\ Len(tasks.spawned) < MaxTasks
    /\ tasks' = _track_task("heartbeat_loop")
    /\ UNCHANGED nonTasksVars

\* gateway dispatch MESSAGE_CREATE: spawn the handler
GatewayMessage ==
    /\ Len(tasks.spawned) < MaxTasks
    /\ tasks' = _track_task("handle_message")
    /\ UNCHANGED nonTasksVars

\* handle_message, a message in a session thread: "Forwarding to ..." is
\* posted and message.relayed is fired at the dashboard
HandleRelay(i) ==
    /\ Len(tasks.spawned) < MaxTasks
    /\ i \in RunningTasks("handle_message")
    /\ tasks' = _fire_dashboard_event
    /\ UNCHANGED nonTasksVars

\* handle_message after send_to_tmux returned True: spawn the capture
HandleSent(i) ==
    /\ Len(tasks.spawned) < MaxTasks
    /\ i \in RunningTasks("handle_message")
    /\ tasks' = _track_task("_capture_and_post_output")
    /\ UNCHANGED nonTasksVars

\* a task finishes (returns, raises or is cancelled); _on_done, if it was
\* registered, discards it from the set
TaskDone(i) ==
    /\ i \in 1..Len(tasks.spawned)
    /\ ~tasks.spawned[i].done
    /\ tasks' = [spawned |-> [tasks.spawned EXCEPT ![i].done = TRUE],
                 _background_tasks |-> tasks._background_tasks \ {i}]
    /\ UNCHANGED nonTasksVars

(***************************************************************************)
(* Worker loops (workers/session_poller.py, message_sync.py,               *)
(* jsonl_ingester.py, usage_poller.py): `while True: try: await one cycle  *)
(* except Exception: log; await asyncio.sleep(interval)`.  What a cycle    *)
(* does is in the sections on each worker; here a cycle is known by how it *)
(* ends.  Cancellation of the worker task at shutdown is not part of this. *)
(***************************************************************************)
Workers == {"session_poller", "message_sync_worker", "jsonl_ingester",
            "usage_poller"}

\* message_sync_worker sleeps 15 s and jsonl_ingester 30 s before the loop
StartsAsleep == {"message_sync_worker", "jsonl_ingester"}

\* a cycle returns, or an Exception comes out of it
CycleOutcomes == {"returned", "raised"}

\* pc: "startup" in the sleep before the loop, "cycle" inside the try,
\* "sleep" in asyncio.sleep(interval), "ended" when the coroutine is over;
\* last: how the latest finished cycle ended
IdleWorkers ==
    [w \in Workers |->
        [pc |-> IF w \in StartsAsleep THEN "startup" ELSE "cycle",
         last |-> "none"]]

\* the sleep before the loop is over
WorkerStart(w) ==
    /\ workers[w].pc = "startup"
    /\ workers' = [workers EXCEPT ![w].pc = "cycle"]
    /\ UNCHANGED nonWorkersVars

\* a loop without the except clause: an exception ends the coroutine
CycleEnd_uncaught(w, outcome) ==
    /\ workers[w].pc = "cycle"
    /\ workers' = [workers EXCEPT
                     ![w].pc = IF outcome = "raised" THEN "ended" ELSE "sleep",
                     ![w].last = outcome]
    /\ UNCHANGED nonWorkersVars

\* the cycle is over: on an Exception logger.exception(...), and either way
\* on to asyncio.sleep(interval)
CycleEnd(w, outcome) ==
    /\ workers[w].pc = "cycle"
    /\ workers' = [workers EXCEPT ![w].pc = "sleep", ![w].last = outcome]
    /\ UNCHANGED nonWorkersVars

\* asyncio.sleep(interval) returns and `while True` starts the next cycle
WorkerWake(w) ==
    /\ workers[w].pc = "sleep"
    /\ workers' = [workers EXCEPT ![w].pc = "cycle"]
    /\ UNCHANGED nonWorkersVars

InitWs ==
    /\ sessions = [n \in WsNames |-> SessionRow("active", "h1", NoTime)]
    /\ messages = <<>>
    /\ events_tbl = <<>>
    /\ published = <<>>
    /\ subscribers = <<>>
    /\ sub_cap = <<>>
    /\ sub_counter = 0
    /\ ingest = [t \in IngestTasks |-> IdleTask]
    /\ ingest_calls = 0
    /\ recon = IdleRecon
    /\ del = IdleDel
    /\ clock = 2
    /\ cmds = <<>>
    /\ drain = [d \in Drainers |-> IdleDrain]
    /\ cancel = IdleCancel
    /\ sent = <<>>
    /\ queue_cfg = IdleQueueCfg(FALSE)
    /\ ws = [c \in WsClients |-> NoClient]
    /\ auth = IdleAuth("")
    /\ send = IdleSend
    /\ usage = IdleUsage
    /\ capture = IdleCapture
    /\ hook = IdleHook
    /\ api = IdleApi
    /\ rate = IdleRate
    /\ settings = IdleSettings
    /\ jsonl = IdleJsonl
    /\ handlers = IdleHandlers
    /\ tasks = IdleTasks
    /\ workers = IdleWorkers

NextWs ==
    \/ \E e \in BusEvents : BusPublish(e)
    \/ \E c \in WsClients : WsConnect(c)
    \/ \E c \in WsClients : WsSendEvent(c)
    \/ \E c \in WsClients : WsHeartbeat(c)
    \/ \E c \in Talkers, frame \in SubscribeFrames : WsSubscribe(c, frame)
    \/ \E c \in Talkers, name \in {"hook", ""} : WsTyping(c, name)
    \/ \E c \in Leavers : WsClose(c)
    \/ \E c \in Leavers : WsDisconnect(c)

SpecWs == InitWs /\ [][NextWs]_vars

NextHandlers ==
    \/ \E c \in WsHandlers : WsAccept(c)
    \/ \E c \in WsHandlers, ok \in BOOLEAN : WsHello(c, ok)
    \/ \E c \in WsHandlers, how \in WsEndings : WsReturn(c, how)

SpecHandlers == InitWs /\ [][NextHandlers]_vars

NextTasks ==
    \/ GatewayHello
    \/ GatewayMessage
    \/ \E i \in 1..MaxTasks : HandleRelay(i)
    \/ \E i \in 1..MaxTasks : HandleSent(i)
    \/ \E i \in 1..MaxTasks : TaskDone(i)

SpecTasks == InitWs /\ [][NextTasks]_vars

NextWorkers ==
    \/ \E w \in Workers : WorkerStart(w)
    \/ \E w \in Workers, outcome \in CycleOutcomes : CycleEnd(w, outcome)
    \/ \E w \in Workers : WorkerWake(w)

SpecWorkers == InitWs /\ [][NextWorkers]_vars

\* the event loop's timer ends every asyncio.sleep
SpecWorkersFair ==
    /\ SpecWorkers
    /\ \A w \in Workers : WF_vars(WorkerStart(w)) /\ WF_vars(WorkerWake(w))

InitAuth ==
    /\ sessions = [n \in WsNames |-> SessionRow("active", "h1", NoTime)]
    /\ messages = <<>>
    /\ events_tbl = <<>>
    /\ published = <<>>
    /\ subscribers = <<>>
    /\ sub_cap = <<>>
    /\ sub_counter = 0
    /\ ingest = [t \in IngestTasks |-> IdleTask]
    /\ ingest_calls = 0
    /\ recon = IdleRecon
    /\ del = IdleDel
    /\ clock = 0
    /\ cmds = <<>>
    /\ drain = [d \in Drainers |-> IdleDrain]
    /\ cancel = IdleCancel
    /\ sent = <<>>
    /\ queue_cfg = IdleQueueCfg(FALSE)
    /\ ws = [c \in WsClients |-> NoClient]
    /\ \E token \in {"", "secret"} : auth = IdleAuth(token)
    /\ send = IdleSend
    /\ usage = IdleUsage
    /\ capture = IdleCapture
    /\ hook = IdleHook
    /\ api = IdleApi
    /\ rate = IdleRate
    /\ settings = IdleSettings
    /\ jsonl = IdleJsonl
    /\ handlers = IdleHandlers
    /\ tasks = IdleTasks
    /\ workers = IdleWorkers

NextAuth ==
    \/ \E dt \in {COOKIE_MAX_AGE, COOKIE_MAX_AGE + 1} : AuthTick(dt)
    \/ \E token \in Tokens : AuthLogin(token)
    \/ \E path \in Paths, authorization \in AuthorizationHeaders,
          cookie \in RequestCookies, query_token \in Tokens \cup {""},
          html \in BOOLEAN :
            AuthRequest(path, authorization, cookie, query_token, html)
    \/ AuthAnswered

SpecAuth == InitAuth /\ [][NextAuth]_vars

InitSend ==
    /\ sessions = [n \in WsNames |-> SessionRow("active", "h1", NoTime)]
    /\ messages = <<>>
    /\ events_tbl = <<>>
    /\ published = <<>>
    /\ subscribers = <<>>
    /\ sub_cap = <<>>
    /\ sub_counter = 0
    /\ ingest = [t \in IngestTasks |-> IdleTask]
    /\ ingest_calls = 0
    /\ recon = IdleRecon
    /\ del = IdleDel
    /\ clock = 0
    /\ cmds = <<>>
    /\ drain = [d \in Drainers |-> IdleDrain]
    /\ cancel = IdleCancel
    /\ sent = <<>>
    /\ queue_cfg = IdleQueueCfg(FALSE)
    /\ ws = [c \in WsClients |-> NoClient]
    /\ auth = IdleAuth("")
    /\ send = IdleSend
    /\ usage = IdleUsage
    /\ capture = IdleCapture
    /\ hook = IdleHook
    /\ api = IdleApi
    /\ rate = IdleRate
    /\ settings = IdleSettings
    /\ jsonl = IdleJsonl
    /\ handlers = IdleHandlers
    /\ tasks = IdleTasks
    /\ workers = IdleWorkers

NextSend ==
    \/ SendTick
    \/ \E s \in Senders : SendText(s)
    \/ \E s \in Senders, rc \in ReturnCodes : SendTextReturn(s, rc)
    \/ \E s \in Senders : SendEnter(s)
    \/ \E s \in Senders, rc \in ReturnCodes : SendEnterReturn(s, rc)

SpecSend == InitSend /\ [][NextSend]_vars

InitUsage ==
    /\ sessions = [n \in WsNames |-> SessionRow("active", "h1", NoTime)]
    /\ messages = <<>>
    /\ events_tbl = <<>>
    /\ published = <<>>
    /\ subscribers = <<>>
    /\ sub_cap = <<>>
    /\ sub_counter = 0
    /\ ingest = [t \in IngestTasks |-> IdleTask]
    /\ ingest_calls = 0
    /\ recon = IdleRecon
    /\ del = IdleDel
    /\ clock = 0
    /\ cmds = <<>>
    /\ drain = [d \in Drainers |-> IdleDrain]
    /\ cancel = IdleCancel
    /\ sent = <<>>
    /\ queue_cfg = IdleQueueCfg(FALSE)
    /\ ws = [c \in WsClients |-> NoClient]
    /\ auth = IdleAuth("")
    /\ send = IdleSend
    /\ \E providers \in ProviderLists :
          usage = [IdleUsage EXCEPT !.providers = providers]
    /\ capture = IdleCapture
    /\ hook = IdleHook
    /\ api = IdleApi
    /\ rate = IdleRate
    /\ settings = IdleSettings
    /\ jsonl = IdleJsonl
    /\ handlers = IdleHandlers
    /\ tasks = IdleTasks
    /\ workers = IdleWorkers

NextUsage ==
    \E result \in PollResults : UsagePollStep(result)

SpecUsage == InitUsage /\ [][NextUsage]_vars

InitCapture ==
    /\ sessions = [n \in WsNames |-> SessionRow("active", "h1", NoTime)]
    /\ messages = <<>>
    /\ events_tbl = <<>>
    /\ published = <<>>
    /\ subscribers = <<>>
    /\ sub_cap = <<>>
    /\ sub_counter = 0
    /\ ingest = [t \in IngestTasks |-> IdleTask]
    /\ ingest_calls = 0
    /\ recon = IdleRecon
    /\ del = IdleDel
    /\ clock = 0
    /\ cmds = <<>>
    /\ drain = [d \in Drainers |-> IdleDrain]
    /\ cancel = IdleCancel
    /\ sent = <<>>
    /\ queue_cfg = IdleQueueCfg(FALSE)
    /\ ws = [c \in WsClients |-> NoClient]
    /\ auth = IdleAuth("")
    /\ send = IdleSend
    /\ usage = IdleUsage
    /\ \E pre_content \in PaneContents :
          capture = [IdleCapture EXCEPT !.pc = "start", !.pre_content = pre_content]
    /\ hook = IdleHook
    /\ api = IdleApi
    /\ rate = IdleRate
    /\ settings = IdleSettings
    /\ jsonl = IdleJsonl
    /\ handlers = IdleHandlers
    /\ tasks = IdleTasks
    /\ workers = IdleWorkers

NextCapture ==
    \/ CaptureStart
    \/ \E cmd \in PaneCommands, d \in SshDurations : CaptureInspect(cmd, d)
    \/ CaptureLoopTest
    \/ \E current \in PaneContents, d \in SshDurations : CapturePane(current, d)
    \/ CapturePollSleep
    \/ \E cmd \in PaneCommands, d \in SshDurations : CaptureRecheck(cmd, d)
    \/ \E ok \in BOOLEAN : CapturePost(ok)

SpecCapture == InitCapture /\ [][NextCapture]_vars


InitQueue ==
    /\ sessions = [n \in {"demo"} |-> SessionRow("active", "h1", NoTime)]
    /\ messages = <<>>
    /\ events_tbl = <<>>
    /\ published = <<>>
    /\ subscribers = <<>>
    /\ sub_cap = <<>>
    /\ sub_counter = 0
    /\ ingest = [t \in IngestTasks |-> IdleTask]
    /\ ingest_calls = 0
    /\ recon = IdleRecon
    /\ del = IdleDel
    /\ clock = 2
    /\ cmds = <<>>
    /\ drain = [d \in Drainers |-> IdleDrain]
    /\ cancel = IdleCancel
    /\ sent = <<>>
    /\ queue_cfg \in {IdleQueueCfg(e) : e \in BOOLEAN}
    /\ ws = [c \in WsClients |-> NoClient]
    /\ auth = IdleAuth("")
    /\ send = IdleSend
    /\ usage = IdleUsage
    /\ capture = IdleCapture
    /\ hook = IdleHook
    /\ api = IdleApi
    /\ rate = IdleRate
    /\ settings = IdleSettings
    /\ jsonl = IdleJsonl
    /\ handlers = IdleHandlers
    /\ tasks = IdleTasks
    /\ workers = IdleWorkers

NextQueue ==
    \/ \E priority \in Priorities : Enqueue(priority)
    \/ \E any_reset \in BOOLEAN : PollerReset(any_reset)
    \/ PollerCheck
    \/ ExecuteStart
    \/ \E d \in Drainers : DrainSnapshot(d)
    \/ \E d \in Drainers : DrainMark(d)
    \/ \E d \in Drainers, outcome \in SendOutcomes : DrainSend(d, outcome)
    \/ \E d \in Drainers : DrainFinish(d)
    \/ \E id \in CancelIds : CancelRead(id)
    \/ CancelWrite

SpecQueue == InitQueue /\ [][NextQueue]_vars

\* Rows the store can hold when the dashboard starts.  "demo" has any status
\* the reconciler tells apart (it treats orphan and unreachable alike), and a
\* closed row carries the time it was closed at; "hook" is absent or active.
InitRow(s) ==
    IF s = "absent" THEN NoRow
    ELSE SessionRow(s, "h1", IF s = "closed" THEN 1 ELSE NoTime)

InitSessions ==
    {[n \in ReconNames |-> InitRow(IF n = "demo" THEN d ELSE h)] :
        d \in {"absent", "active", "idle", "orphan", "closed"},
        h \in {"absent", "active"}}

InitRecon ==
    /\ sessions \in InitSessions
    /\ messages = <<>>
    /\ events_tbl = <<>>
    /\ published = <<>>
    /\ subscribers = <<>>
    /\ sub_cap = <<>>
    /\ sub_counter = 0
    /\ ingest = [t \in IngestTasks |-> IdleTask]
    /\ ingest_calls = 0
    /\ recon = IdleRecon
    /\ del = IdleDel
    /\ clock = 2
    /\ cmds = <<>>
    /\ drain = [d \in Drainers |-> IdleDrain]
    /\ cancel = IdleCancel
    /\ sent = <<>>
    /\ queue_cfg = IdleQueueCfg(FALSE)
    /\ ws = [c \in WsClients |-> NoClient]
    /\ auth = IdleAuth("")
    /\ send = IdleSend
    /\ usage = IdleUsage
    /\ capture = IdleCapture
    /\ hook = IdleHook
    /\ api = IdleApi
    /\ rate = IdleRate
    /\ settings = IdleSettings
    /\ jsonl = IdleJsonl
    /\ handlers = IdleHandlers
    /\ tasks = IdleTasks
    /\ workers = IdleWorkers

NextRecon ==
    \/ \E listing \in TmuxListings, failed \in SUBSET Hosts,
          order \in HostOrders : PollList(listing, failed, order)
    \/ PollSnapshot
    \/ PollInsert
    \/ PollCreated
    \/ PollExisting
    \/ PollUpdated
    \/ PollClosed
    \/ \E name \in DeleteNames : DeleteStart(name)
    \/ DeleteUpdate
    \/ DeletePublish

SpecRecon == InitRecon /\ [][NextRecon]_vars

InitMsg ==
    /\ sessions = [n \in {"hook", "demo", "nope"} |->
                     IF n = "nope" THEN NoRow
                     ELSE SessionRow("active", "h1", NoTime)]
    /\ messages = <<>>
    /\ events_tbl = <<>>
    /\ published = <<>>
    /\ subscribers = <<>>
    /\ sub_cap = <<>>
    /\ sub_counter = 0
    /\ ingest = [t \in IngestTasks |-> IdleTask]
    /\ ingest_calls = 0
    /\ recon = IdleRecon
    /\ del = IdleDel
    /\ clock = 2
    /\ cmds = <<>>
    /\ drain = [d \in Drainers |-> IdleDrain]
    /\ cancel = IdleCancel
    /\ sent = <<>>
    /\ queue_cfg = IdleQueueCfg(FALSE)
    /\ ws = [c \in WsClients |-> NoClient]
    /\ auth = IdleAuth("")
    /\ send = IdleSend
    /\ usage = IdleUsage
    /\ capture = IdleCapture
    /\ hook = IdleHook
    /\ api = IdleApi
    /\ rate = IdleRate
    /\ settings = IdleSettings
    /\ jsonl = IdleJsonl
    /\ handlers = IdleHandlers
    /\ tasks = IdleTasks
    /\ workers = IdleWorkers

NextMsg ==
    \/ \E t \in IngestTasks, ev \in BridgeEvents : BridgeReceive(t, ev)
    \/ \E t \in IngestTasks : BridgeInsert(t)
    \/ \E t \in IngestTasks : BridgePublish(t)
    \/ \E t \in IngestTasks : BridgeAudit(t)
    \/ \E t \in IngestTasks, src \in {"discord", "slack"},
          name \in {"hook"}, batch \in Batches :
            BatchStart(t, src, name, batch)
    \/ \E t \in IngestTasks : BatchStep(t)

SpecMsg == InitMsg /\ [][NextMsg]_vars

NextRelay ==
    \/ \E t \in IngestTasks, u \in Utterances : Relay(t, u)
    \/ \E t \in IngestTasks : BridgeInsert(t)
    \/ \E t \in IngestTasks : BridgePublish(t)
    \/ \E t \in IngestTasks : BridgeAudit(t)
    \/ \E t \in IngestTasks, u \in Utterances : Pull(t, u)
    \/ \E t \in IngestTasks : BatchStep(t)

SpecRelay == InitMsg /\ [][NextRelay]_vars

NextJsonl ==
    \/ \E line \in TranscriptLines : TranscriptAppend(line)
    \/ \E name \in JsonlSessions : JsonlIngest(name)

SpecJsonl == InitMsg /\ [][NextJsonl]_vars

InitHook ==
    /\ sessions = [n \in {"hook", "demo", "nope"} |->
                     IF n = "nope" THEN NoRow
                     ELSE SessionRow("active", "h1", NoTime)]
    /\ messages = <<>>
    /\ events_tbl = <<>>
    /\ published = <<>>
    /\ subscribers = <<>>
    /\ sub_cap = <<>>
    /\ sub_counter = 0
    /\ ingest = [t \in IngestTasks |-> IdleTask]
    /\ ingest_calls = 0
    /\ recon = IdleRecon
    /\ del = IdleDel
    /\ clock = 2
    /\ cmds = <<>>
    /\ drain = [d \in Drainers |-> IdleDrain]
    /\ cancel = IdleCancel
    /\ sent = <<>>
    /\ queue_cfg = IdleQueueCfg(FALSE)
    /\ ws = [c \in WsClients |-> NoClient]
    /\ auth = IdleAuth("")
    /\ send = IdleSend
    /\ usage = IdleUsage
    /\ capture = IdleCapture
    /\ hook = IdleHook
    /\ api = IdleApi
    /\ rate = IdleRate
    /\ settings = IdleSettings
    /\ jsonl = IdleJsonl
    /\ handlers = IdleHandlers
    /\ tasks = IdleTasks
    /\ workers = IdleWorkers

NextHook ==
    \/ \E body \in UnparsableBodies : HookBadJson(body)
    \/ \E body \in NonObjectBodies : HookNotObject(body)
    \/ \E ev \in BridgeEvents : HookEvent(ev)
    \/ BridgeInsert(HookTask)
    \/ BridgePublish(HookTask)
    \/ BridgeAudit(HookTask)
    \/ HookIngestRaises
    \/ HookAccepted

SpecHook == InitHook /\ [][NextHook]_vars

InitApi ==
    /\ sessions = [n \in ApiNames |-> NoRow]
    /\ messages = <<>>
    /\ events_tbl = <<>>
    /\ published = <<>>
    /\ subscribers = <<>>
    /\ sub_cap = <<>>
    /\ sub_counter = 0
    /\ ingest = [t \in IngestTasks |-> IdleTask]
    /\ ingest_calls = 0
    /\ recon = IdleRecon
    /\ del = IdleDel
    /\ clock = 2
    /\ cmds = <<>>
    /\ drain = [d \in Drainers |-> IdleDrain]
    /\ cancel = IdleCancel
    /\ sent = <<>>
    /\ queue_cfg = IdleQueueCfg(FALSE)
    /\ ws = [c \in WsClients |-> NoClient]
    /\ auth = IdleAuth("")
    /\ send = IdleSend
    /\ usage = IdleUsage
    /\ capture = IdleCapture
    /\ hook = IdleHook
    /\ api = IdleApi
    /\ rate = IdleRate
    /\ settings = IdleSettings
    /\ jsonl = IdleJsonl
    /\ handlers = IdleHandlers
    /\ tasks = IdleTasks
    /\ workers = IdleWorkers

NextApi ==
    \/ \E name \in ApiNames : Discover(name)
    \/ \E name \in ApiNames : ApiGet(name)
    \/ \E raw \in RawNames, raw_host \in RawHosts : ApiCreate(raw, raw_host)
    \/ \E name \in ApiNames, found \in BOOLEAN : ApiDelete(name, found)
    \/ \E name \in ApiNames, agent \in PatchAgents : ApiPatch(name, agent)
    \/ \E name \in ApiNames, message \in SendMessages,
          found \in BOOLEAN, sent_ok \in BOOLEAN :
            ApiSend(name, message, found, sent_ok)
    \/ \E name \in ApiNames : ApiMessages(name)
    \/ \E name \in ApiNames : ApiSync(name)

SpecApi == InitApi /\ [][NextApi]_vars

InitRate ==
    /\ sessions = [n \in ApiNames |-> NoRow]
    /\ messages = <<>>
    /\ events_tbl = <<>>
    /\ published = <<>>
    /\ subscribers = <<>>
    /\ sub_cap = <<>>
    /\ sub_counter = 0
    /\ ingest = [t \in IngestTasks |-> IdleTask]
    /\ ingest_calls = 0
    /\ recon = IdleRecon
    /\ del = IdleDel
    /\ clock = 2
    /\ cmds = <<>>
    /\ drain = [d \in Drainers |-> IdleDrain]
    /\ cancel = IdleCancel
    /\ sent = <<>>
    /\ queue_cfg = IdleQueueCfg(FALSE)
    /\ ws = [c \in WsClients |-> NoClient]
    /\ auth = IdleAuth("")
    /\ send = IdleSend
    /\ usage = IdleUsage
    /\ capture = IdleCapture
    /\ hook = IdleHook
    /\ api = IdleApi
    /\ \E since \in 0..MaxRateClock : rate = [IdleRate EXCEPT !.since = since]
    /\ settings = IdleSettings
    /\ jsonl = IdleJsonl
    /\ handlers = IdleHandlers
    /\ tasks = IdleTasks
    /\ workers = IdleWorkers

NextRate ==
    \/ RateTick
    \/ \E xff \in ForwardedFor, remote \in Peers, path \in RatePaths :
          RateRequest(xff, remote, path)

SpecRate == InitRate /\ [][NextRate]_vars

InitSettings ==
    /\ sessions = [n \in ApiNames |-> NoRow]
    /\ messages = <<>>
    /\ events_tbl = <<>>
    /\ published = <<>>
    /\ subscribers = <<>>
    /\ sub_cap = <<>>
    /\ sub_counter = 0
    /\ ingest = [t \in IngestTasks |-> IdleTask]
    /\ ingest_calls = 0
    /\ recon = IdleRecon
    /\ del = IdleDel
    /\ clock = 2
    /\ cmds = <<>>
    /\ drain = [d \in Drainers |-> IdleDrain]
    /\ cancel = IdleCancel
    /\ sent = <<>>
    /\ queue_cfg = IdleQueueCfg(FALSE)
    /\ ws = [c \in WsClients |-> NoClient]
    /\ auth = IdleAuth("")
    /\ send = IdleSend
    /\ usage = IdleUsage
    /\ capture = IdleCapture
    /\ hook = IdleHook
    /\ api = IdleApi
    /\ rate = IdleRate
    /\ settings = IdleSettings
    /\ jsonl = IdleJsonl
    /\ handlers = IdleHandlers
    /\ tasks = IdleTasks
    /\ workers = IdleWorkers

NextSettings ==
    \/ GetSettings
    \/ \E key \in BodyKeys, value \in BodyValues : PutSettings(key, value)

SpecSettings == InitSettings /\ [][NextSettings]_vars



(***************************************************************************)
(* Claims on message ingestion                                             *)
(***************************************************************************)
RowsFor(tbl, source, source_id) ==
    {i \in 1..Len(tbl) : tbl[i].source = source /\ tbl[i].source_id = source_id}

\* Task t runs an insert statement in this step
IsInsertStep(t) ==
    \/ ingest[t].pc = "insert" /\ ingest'[t].pc # "insert"
    \/ /\ ingest[t].pc = "batch"
       /\ ingest'[t] # ingest[t]
       /\ ingest[t].rest # <<>>
       /\ Strip(Head(ingest[t].rest).content) # <<>>

\* the row that statement carries
InsertedRow(t) ==
    IF ingest[t].pc = "insert"
    THEN ingest[t].row
    ELSE MessageRow(ingest[t].sess, Strip(Head(ingest[t].rest).content),
                    ingest[t].src, Head(ingest[t].rest).id)

\* C1: whenever an ingestion (bridge event or platform batch, on any task and
\* in any interleaving) has run its insert for a non-empty (source,
\* source_id), the messages table holds exactly one row for that pair, and
\* every pair that is stored keeps exactly one row from then on.
C1_ExactlyOneRowPerSourceId ==
    [][/\ \A t \in IngestTasks :
            (IsInsertStep(t) /\ Truthy(InsertedRow(t).source_id)) =>
                Cardinality(RowsFor(messages', InsertedRow(t).source,
                                    InsertedRow(t).source_id)) = 1
       /\ \A i \in 1..Len(messages) :
            Truthy(messages[i].source_id) =>
                Cardinality(RowsFor(messages', messages[i].source,
                                    messages[i].source_id)) = 1
      ]_vars

EventHash(e) ==
    compute_dedup_hash(e.session_name, e.ref.source, e.ref.source_id, e.ref.content)

\* message.new events published so far for fingerprint h
News(h) ==
    Cardinality({i \in 1..Len(published) :
                    published[i].type = "message.new" /\ EventHash(published[i]) = h})

\* bridge calls whose insert added the row with fingerprint h and that are
\* about to publish
Pending(h) ==
    Cardinality({t \in IngestTasks :
                    ingest[t].pc = "publish" /\ ingest[t].row.dedup_hash = h})

Rows(h) == Cardinality({i \in 1..Len(messages) : messages[i].dedup_hash = h})

Fingerprints ==
    HashSet(messages) \cup {EventHash(published[i]) :
                               i \in {j \in 1..Len(published) :
                                         published[j].type = "message.new"}}
    \cup {ingest[t].row.dedup_hash : t \in {u \in IngestTasks : ingest[u].pc # "idle"
                                                               /\ ingest[u].pc # "batch"}}

\* C10: ingest_bridge_event publishes message.new exactly when its insert
\* added a row.  A call whose insert was ignored never reaches the publish; a
\* call whose insert added the row has published exactly one message.new by
\* the time it writes the audit row; and per fingerprint there are never more
\* message.new events than stored rows, so that the same event ingested twice
\* leaves one row and one message.new.
C10_PublishIffInserted ==
    /\ \A h \in Fingerprints : News(h) + Pending(h) <= Rows(h) /\ Rows(h) <= 1
    /\ \A t \in IngestTasks :
          /\ ingest[t].pc = "publish" => ingest[t].rowcount = 1
          /\ (ingest[t].pc = "audit" /\ ingest[t].rowcount = 1) =>
                News(ingest[t].row.dedup_hash) = 1
          /\ (ingest[t].pc = "audit" /\ ingest[t].rowcount = 0) =>
                /\ Rows(ingest[t].row.dedup_hash) = 1
                /\ News(ingest[t].row.dedup_hash) + Pending(ingest[t].row.dedup_hash) <= 1

\* The same webhook event was ingested twice in sequence: the first call is
\* over (its audit row is written), the second call's insert was ignored, one
\* row and one message.new exist for it.
C10_Witness ==
    \E t \in IngestTasks :
        /\ ingest[t].pc = "audit"
        /\ ingest[t].rowcount = 0
        /\ \A u \in IngestTasks \ {t} : ingest[u].pc = "idle"
        /\ Len(events_tbl) = 1
        /\ Len(messages) = 1
        /\ messages[1] = ingest[t].row
        /\ News(ingest[t].row.dedup_hash) = 1
        /\ Len(published) = 1

(***************************************************************************)
(* Claims about the reconciler                                             *)
(***************************************************************************)
\* a step of the reconciler tick
IsPollStep == recon' # recon

StatusOf(tbl, n) == IF tbl[n] = NoRow THEN "absent" ELSE tbl[n].status

PollerClosed(log, n) ==
    {i \in 1..Len(log) : /\ log[i].type = "session.closed"
                          /\ log[i].name = n
                          /\ log[i].ref.by = "poller"}

\* the tick is between its closing UPDATE for n and the publication
ClosingNow(r, n) == r.pc = "closed" /\ Head(r.todo) = n

\* C2: a session stored as active and absent from every host listing is
\* closed by the reconciler at most once: the step that takes it out of
\* active makes it closed with closed_at = the tick's timestamp, that tick
\* then publishes exactly one session.closed for it, and a tick whose
\* snapshot no longer holds the session leaves its row alone and publishes
\* no session.closed; once the reconciler has closed it, it stays closed.
C2_MonotoneClosure ==
    [][\A n \in ReconNames :
         /\ IsPollStep =>
               /\ (StatusOf(sessions, n) = "active"
                     /\ StatusOf(sessions', n) # "active") =>
                       /\ recon.live[n] = NoHost
                       /\ sessions'[n].status = "closed"
                       /\ sessions'[n].closed_at = recon.now
                       /\ recon.now # NoTime
                       /\ ClosingNow(recon', n)
               /\ ClosingNow(recon, n) =>
                       /\ Len(published') = Len(published) + 1
                       /\ Cardinality(PollerClosed(published', n))
                            = Cardinality(PollerClosed(published, n)) + 1
               /\ ~ClosingNow(recon, n) =>
                       PollerClosed(published', n) = PollerClosed(published, n)
               /\ (StatusOf(sessions, n) = "closed"
                     /\ recon.db_sessions[n] = NoRow) =>
                       sessions'[n] = sessions[n]
         /\ Cardinality(PollerClosed(published', n)) <= 1
         /\ PollerClosed(published', n) # {} =>
               StatusOf(sessions', n) = "closed"
      ]_vars

\* the reconciler closed an active session in an earlier tick, and a later
\* tick that does not list it is past its snapshot
C2_Witness ==
    \E n \in ReconNames :
        /\ \E i \in PollerClosed(published, n) :
              published[i].ref.was = "active"
        /\ recon.pc \in {"insert", "created", "existing", "updated", "closed"}
        /\ recon.live[n] = NoHost
        /\ sessions[n].status = "closed"
        /\ sessions[n].closed_at # NoTime
        /\ sessions[n].closed_at < recon.now

(***************************************************************************)
(* Claims about the command queue                                          *)
(***************************************************************************)
\* drainer d takes the step that leaves position pc
DrainStep(d, pc) == drain[d].pc = pc /\ drain'[d] # drain[d]

PendingIds(tbl) == {i \in 1..Len(tbl) : tbl[i].status = "pending"}

\* priority descending, then created_at ascending
InDrainOrder(tbl, ids) ==
    \A i, j \in 1..Len(ids) :
        i < j => \/ tbl[ids[i]].priority > tbl[ids[j]].priority
                 \/ /\ tbl[ids[i]].priority = tbl[ids[j]].priority
                    /\ tbl[ids[i]].created_at <= tbl[ids[j]].created_at

\* C4: the drain started by a reset takes the pending entries in order of
\* priority descending then created_at ascending and sends them in that
\* order; each drained entry goes pending -> executing at the drain's first
\* write and executing -> completed (send succeeded) or executing -> failed
\* (send returned false or raised) at its second, which is followed by
\* command.executed respectively command.failed for that entry.
C4_DrainOrderAndLifecycle ==
    [][LET d == "poller"
           todo == drain[d].todo
           id == Head(todo)
       IN /\ DrainStep(d, "snapshot") =>
                /\ {drain'[d].todo[i] : i \in 1..Len(drain'[d].todo)}
                     = PendingIds(cmds)
                /\ Len(drain'[d].todo) = Cardinality(PendingIds(cmds))
                /\ InDrainOrder(cmds, drain'[d].todo)
          /\ DrainStep(d, "mark") =>
                /\ cmds[id].status = "pending"
                /\ cmds'[id].status = "executing"
                /\ drain'[d].todo = todo
          /\ DrainStep(d, "send") =>
                /\ sent'[id] = sent[id] + 1
                /\ \A o \in 1..Len(sent) : o # id => sent'[o] = sent[o]
                /\ drain'[d].todo = todo
          /\ DrainStep(d, "finish") =>
                /\ cmds[id].status = "executing"
                /\ cmds'[id].status =
                     (IF drain[d].outcome = "ok" THEN "completed" ELSE "failed")
                /\ published' = Append(published,
                     CommandEvent(IF drain[d].outcome = "ok"
                                  THEN "command.executed"
                                  ELSE "command.failed", id))
                /\ drain'[d].todo = Tail(todo)
      ]_vars

StatusAt(tbl, id) == IF id \in 1..Len(tbl) THEN tbl[id].status ELSE "unknown"

IsPublishStep == Len(published') = Len(published) + 1
LastPublished == published[Len(published)]
QueueRefs(q) == {q[k].ref : k \in 1..Len(q)}

\* C6: when publish(event) finds a subscriber's queue full, that queue is
\* left as it was, and every other registered subscriber whose queue has
\* room gets the event appended exactly once; the subscriber with the full
\* queue is not given the event at any later step either, since a queue
\* only ever gains an event in the publish step of that event.
C6_FullQueueDropsOnlyThere ==
    [][/\ IsPublishStep =>
            \A i \in DOMAIN subscribers :
                /\ i \in DOMAIN subscribers'
                /\ subscribers'[i] =
                     IF Len(subscribers[i]) >= sub_cap[i]
                     THEN subscribers[i]
                     ELSE Append(subscribers[i],
                                 published'[Len(published')])
       /\ ~IsPublishStep =>
            \A i \in DOMAIN subscribers \cap DOMAIN subscribers' :
                QueueRefs(subscribers'[i]) \subseteq QueueRefs(subscribers[i])
      ]_vars

\* a publish found one queue full and another with room: the full queue
\* holds older events only, the other one ends with the event just published
C6_Witness ==
    /\ published # <<>>
    /\ \E a, b \in DOMAIN subscribers :
        /\ a # b
        /\ Len(subscribers[a]) = sub_cap[a]
        /\ \A r \in QueueRefs(subscribers[a]) : r < Len(published)
        /\ subscribers[b] # <<>>
        /\ subscribers[b][Len(subscribers[b])] = LastPublished

IsDequeueStep(c) == ws'[c].taken # ws[c].taken

\* C7: every event a subscriber takes from its queue is a published event
\* that was published after the event it took before, so the events it
\* dequeues form a subsequence of the publication order with no event taken
\* twice, whatever publishers, subscribers and unsubscribers do in between.
C7_DequeuedInPublicationOrder ==
    [][\A c \in WsClients :
          IsDequeueStep(c) =>
              /\ ws'[c].taken \in 1..Len(published)
              /\ ws'[c].taken > ws[c].taken
              /\ published[ws'[c].taken] = Head(subscribers[ws[c].sub_id])
      ]_vars

\* a client has been sent one event and has taken a later one while another
\* client has unsubscribed
C7_Witness ==
    \E c, d \in WsClients :
        /\ ws[c].out > Heartbeat
        /\ ws[c].taken > ws[c].out
        /\ ws[d].state = "gone"

IsSendStep(c) == ws'[c].out # ws[c].out /\ ws'[c].out # Heartbeat
Present(v) == v # ""

\* C8: with a non-empty filter F set by the client's last subscribe frame,
\* no event whose payload.name or payload.session_name is present and
\* outside F is written to the client's socket; with an empty filter every
\* event that comes out of the queue of a connected client is written.
C8_FilterGovernsSends ==
    [][\A c \in WsClients :
          /\ (IsSendStep(c) /\ ws[c].filter # {}) =>
                LET e == published[ws'[c].out]
                IN /\ ~(Present(e.name) /\ e.name \notin ws[c].filter)
                   /\ ~(Present(e.session_name)
                        /\ e.session_name \notin ws[c].filter)
          /\ (IsDequeueStep(c) /\ ws[c].filter = {} /\ ws[c].state = "open")
                => ws'[c].out = ws'[c].taken
      ]_vars

\* a filtering client has been sent an event of its session and has then
\* had a later event of another session taken from its queue and withheld
C8_Witness ==
    \E c \in WsClients :
        /\ ws[c].state = "open"
        /\ ws[c].filter # {}
        /\ ws[c].out > Heartbeat
        /\ FilterName(published[ws[c].out]) \in ws[c].filter
        /\ ws[c].taken > ws[c].out
        /\ Present(FilterName(published[ws[c].taken]))
        /\ FilterName(published[ws[c].taken]) \notin ws[c].filter

(***************************************************************************)
(* Auth middleware                                                         *)
(***************************************************************************)
Exempt(path) == \E prefix \in NO_AUTH_PREFIXES : StartsWith(path, prefix)

\* a cookie the server signed with the token no more than COOKIE_MAX_AGE
\* seconds before the request
SignedUnexpired(r) ==
    \E t \in 0..r.at :
        /\ r.cookie = create_session_cookie(auth.token, t)
        /\ r.at - t <= COOKIE_MAX_AGE

ValidCredential(r) ==
    IF r.path = WsPath
    THEN r.query_token = auth.token \/ SignedUnexpired(r)
    ELSE r.authorization = <<"Bearer ", auth.token>> \/ SignedUnexpired(r)

\* C9: with a token configured, a request outside the exempt prefixes
\* reaches its handler only with a valid credential (Bearer header equal to
\* the token or a signed unexpired cookie; for /ws the token query parameter
\* or the cookie), and without one every /api/ request is answered 401;
\* with no token configured every request reaches its handler.
C9_AuthGate ==
    LET r == auth.last
    IN r.resp # "none" =>
         IF auth.token # ""
         THEN ~Exempt(r.path) =>
                /\ r.resp = "handler" => ValidCredential(r)
                /\ (~ValidCredential(r) /\ StartsWith(r.path, ApiPrefix))
                      => r.resp = "401"
         ELSE r.resp = "handler"

(***************************************************************************)
(* Messages table                                                          *)
(***************************************************************************)
SameTriple(a, b) ==
    /\ a.session_name = b.session_name
    /\ a.source = b.source
    /\ a.source_id = b.source_id

SameContentKey(a, b) ==
    /\ a.session_name = b.session_name
    /\ a.source = b.source
    /\ Take(a.content, DedupKeyLen) = Take(b.content, DedupKeyLen)

\* C11: in every state of the messages table no two rows with a non-null
\* source_id agree on (session, source, source_id), and no two rows with a
\* null source_id agree on session, source and the first 200 characters of
\* content.
C11_AtMostOnePerFingerprint ==
    \A i, j \in 1..Len(messages) :
        i # j =>
            /\ (messages[i].source_id # NULL /\ messages[j].source_id # NULL)
                  => ~SameTriple(messages[i], messages[j])
            /\ (messages[i].source_id = NULL /\ messages[j].source_id = NULL)
                  => ~SameContentKey(messages[i], messages[j])

(***************************************************************************)
(* Reconciler: discovery, transitions, host failures                       *)
(***************************************************************************)
\* session.created events published so far for a name, and rows of that
\* kind in the event log
CreatedEvents(n) ==
    Cardinality({i \in 1..Len(published) :
                    published[i].type = "session.created"
                    /\ published[i].name = n})
CreatedLogged(tbl, n) ==
    Cardinality({i \in 1..Len(tbl) :
                    tbl[i].event_type = "session.created"
                    /\ tbl[i].session_name = n})
InNewLoop(r) == r.pc \in {"insert", "created"}
FreshLive(r) == {n \in r.fresh : r.live[n] # NoHost}

\* C12: for each name reported live that had no stored row when the tick
\* started, the tick inserts a row with status active and the reporting
\* host, and when its loop over the new names is through it has published
\* exactly one session.created event with that payload.name and appended
\* exactly one session.created row to the event log.
C12_DiscoveryInsertsAndAnnounces ==
    [][IsPollStep =>
       /\ (recon.pc = "insert" /\ Head(recon.todo) \in recon.fresh) =>
            LET name == Head(recon.todo)
            IN sessions'[name] =
                  SessionRow("active", recon.live[name], NoTime)
       /\ (recon.pc = "snapshot" /\ ~InNewLoop(recon')) =>
            FreshLive(recon) = {}
       /\ (InNewLoop(recon) /\ ~InNewLoop(recon')) =>
            \A n \in FreshLive(recon) :
                /\ sessions'[n] # NoRow
                /\ Cardinality({i \in 1..Len(published') :
                       published'[i].type = "session.created"
                       /\ published'[i].name = n}) = 1
                /\ CreatedLogged(events_tbl', n) = 1
      ]_vars

\* a tick has discovered a name that had no row: the row, one event and one
\* log row are there
C12_Witness ==
    \E n \in FreshLive(recon) :
        /\ sessions[n] # NoRow
        /\ sessions[n].host = recon.live[n]
        /\ CreatedEvents(n) = 1
        /\ CreatedLogged(events_tbl, n) = 1
        /\ recon.pc \in {"existing", "updated", "closed"}

ReconcilerTransitions ==
    {<<"active", "idle">>, <<"idle", "active">>, <<"active", "closed">>}

\* C13: every status change the reconciler writes to a stored row is one of
\* active -> idle, idle -> active, active -> closed; so it closes only rows
\* stored as active and leaves the status of orphan and unreachable rows
\* alone.
C13_ReconcilerTransitions ==
    [][IsPollStep =>
         \A n \in ReconNames :
            (sessions[n] # NoRow /\ sessions'[n].status # sessions[n].status)
               => <<sessions[n].status, sessions'[n].status>>
                     \in ReconcilerTransitions
      ]_vars

\* C14: a tick in which the listing of a host failed does not close a
\* session that is stored as active on that host (and the tick runs to its
\* end with what the other hosts reported).
C14_FailedHostNotClosed ==
    [][IsPollStep =>
         \A n \in ReconNames :
            (/\ sessions[n] # NoRow
             /\ sessions[n].status = "active"
             /\ sessions[n].host \in recon.failed)
               => sessions'[n].status # "closed"
      ]_vars

\* C15: a name reported by more than one host in a tick is mapped, for that
\* tick, to the host that reported it first, in whatever order the parallel
\* host queries complete.
C15_FirstHostWins ==
    \A n \in ReconNames : recon.live[n] = recon.first[n]

(***************************************************************************)
(* Send-keys protocol                                                      *)
(***************************************************************************)
\* positions in the log of the invocations made by call id
InvocationsOf(id) == {i \in 1..Len(send.log) : send.log[i].id = id}
TextOf(id) == {i \in InvocationsOf(id) : send.log[i].keys = "text"}
EnterOf(id) == {i \in InvocationsOf(id) : send.log[i].keys = "Enter"}

\* C16: a send makes the text invocation and the Enter invocation
\* separately, the text first and Enter at least 300 ms after it; Enter is
\* made only after the text invocation succeeded; the send returns true
\* exactly when both invocations returned 0.
C16_SendKeysProtocol ==
    \A id \in 1..Len(send.results) :
        /\ Cardinality(TextOf(id)) = 1
        /\ Cardinality(EnterOf(id)) <= 1
        /\ InvocationsOf(id) = TextOf(id) \cup EnterOf(id)
        /\ \A t \in TextOf(id), e \in EnterOf(id) :
              /\ t < e
              /\ send.log[t].rc = 0
              /\ send.log[e].at >= send.log[t].at + SEND_KEYS_DELAY
        /\ send.results[id] # "running" =>
              (send.results[id] = "true" <=>
                  /\ \A t \in TextOf(id) : send.log[t].rc = 0
                  /\ EnterOf(id) # {}
                  /\ \A e \in EnterOf(id) : send.log[e].rc = 0)

\* one send has gone through both invocations and returned true, another
\* has stopped after a failed text invocation
C16_Witness ==
    \E a, b \in 1..Len(send.results) :
        /\ send.results[a] = "true" /\ EnterOf(a) # {}
        /\ send.results[b] = "false" /\ EnterOf(b) = {}

(***************************************************************************)
(* Usage monitor: reset detection                                          *)
(***************************************************************************)
IsUsageStep == usage' # usage

\* usage.reset events for kind k that the step has published
ResetsPublished(k) ==
    {i \in (Len(published) + 1)..Len(published') :
        /\ published'[i].type = "usage.reset"
        /\ published'[i].ref.limit_type = k}

\* the snapshot the step has polled and stored
CurrentSnapshot == usage'.snaps[Len(usage'.snaps)]

\* rows stored before the step for the same provider with status 200 or 429
PriorGood ==
    {i \in 1..Len(usage.snaps) :
        /\ usage.snaps[i].provider = CurrentSnapshot.provider
        /\ usage.snaps[i].poll_status_code \in {200, 429}}

RemainingIncreased(k) ==
    /\ PriorGood # {}
    /\ LET prior == usage.snaps[CHOOSE i \in PriorGood : \A j \in PriorGood : j <= i]
       IN /\ CurrentSnapshot.remaining[k] # NoHeader
          /\ prior.remaining[k] # NoHeader
          /\ CurrentSnapshot.remaining[k] > prior.remaining[k]

\* C17: a usage poll step publishes usage.reset for limit kind k, once, exactly
\* when the remaining value of k in the snapshot it polled is strictly greater
\* than the one in the last stored snapshot of that provider with status 200
\* or 429; with no such snapshot, or a value that is equal or lower, it
\* publishes no usage.reset for k.
C17_ResetIffRemainingIncreased ==
    [][IsUsageStep =>
         \A k \in LimitKinds :
             Cardinality(ResetsPublished(k)) = IF RemainingIncreased(k) THEN 1 ELSE 0]_vars

\* a reset was published over a later snapshot of the same provider that is
\* not a 200/429 one, and a poll with an unchanged value published none
C17_Witness ==
    /\ Len(usage.snaps) = 3
    /\ \A i \in 1..3 : usage.snaps[i].provider = "anthropic"
    /\ usage.snaps[1].poll_status_code = 429
    /\ usage.snaps[1].remaining["requests"] = 0
    /\ usage.snaps[1].remaining["tokens"] = 1
    /\ usage.snaps[2].poll_status_code = 500
    /\ usage.snaps[2].remaining["requests"] = 1
    /\ usage.snaps[3].remaining["requests"] = 1
    /\ usage.snaps[3].remaining["tokens"] = 1
    /\ \E i \in 1..Len(published) :
          /\ published[i].type = "usage.reset"
          /\ published[i].ref = [provider |-> "anthropic", limit_type |-> "requests",
                                 polled_at |-> usage.snaps[3].polled_at]
    /\ ~ \E i \in 1..Len(published) :
            /\ published[i].type = "usage.reset"
            /\ published[i].ref.limit_type = "tokens"

(***************************************************************************)
(* Shell-output capture                                                    *)
(***************************************************************************)
\* C18: when the pane command is not one of the shell names (compared in
\* lower case) at the first inspection or at the final recheck, the capture
\* task ends without having posted an output message.
C18_NonShellPostsNothing ==
    (\/ capture.first_cmd # NoCommand /\ ~IsShell(capture.first_cmd)
     \/ capture.last_cmd # NoCommand /\ ~IsShell(capture.last_cmd))
        => ~capture.posted

\* a task that saw a shell first and new output in the pane, found an agent
\* in the foreground at the recheck, and ended without a post
C18_Witness ==
    /\ capture.pc = "done"
    /\ IsShell(capture.first_cmd)
    /\ capture.last_cmd = "claude"
    /\ NewLines(capture.pre_content, capture.last_content) # <<>>
    /\ ~capture.posted

\* C19: the polling loop does not go on once two consecutive pane captures
\* were identical, and it is never still running after its deadline, 30 s
\* after it started.
C19_StopsWhenStableOrByDeadline ==
    /\ capture.pc = "sleep" => ~(capture.prev # NoCapture /\ capture.cur = capture.prev)
    /\ capture.pc \in {"loop", "capture", "sleep"} => clock <= capture.deadline

(***************************************************************************)
(* Bridge webhook                                                          *)
(***************************************************************************)
\* C20: every response of POST /api/hooks/event is 202 {"accepted": true},
\* whatever the body was and whatever went wrong during the ingestion.
C20_AlwaysAccepted ==
    \A i \in 1..Len(hook.responses) : hook.responses[i] = Accepted

(***************************************************************************)
(* Audit log of bridge events                                              *)
(***************************************************************************)
\* ingestion tasks that are past the checks of ingest_bridge_event
InBridgeBody(t) == ingest[t].pc \in {"insert", "publish", "audit"}

\* C21: a bridge event that is not a typing event and names a stored session
\* gets, whatever its type and content and whether or not its message row is
\* new, exactly one row in the events table: its call goes on to the
\* database statements, and a call that went on appends one row when it ends
\* and none before.
C21_OneAuditRowPerBridgeEvent ==
    [][/\ \A t \in IngestTasks, ev \in BridgeEvents :
             (/\ ev.type \notin TypingTypes
              /\ ev.session_name \in DOMAIN sessions
              /\ SessionExists(ev.session_name)
              /\ BridgeReceive(t, ev))
                 => InBridgeBody(t)'
       /\ Len(events_tbl') =
             Len(events_tbl)
               + Cardinality({t \in IngestTasks :
                                 InBridgeBody(t) /\ ingest'[t].pc = "idle"})]_vars

(***************************************************************************)
(* Session API: names                                                      *)
(***************************************************************************)
IsApiCall == api'.calls = api.calls + 1

NameOps == {"create", "get", "delete", "patch", "send", "messages", "sync"}

\* C22: a request of one of the operations that take a session name, made
\* with a name that has a character outside [A-Za-z0-9_-] or more than 64
\* characters, is answered 400, runs no remote command and changes nothing
\* stored for that name.
C22_InvalidNameRejected ==
    [][(/\ IsApiCall
        /\ api'.last.op \in NameOps
        /\ api'.last.name # <<>>
        /\ ~is_valid_session_name(api'.last.name))
           => /\ api'.last.status = 400
              /\ api'.last.ran = {}
              /\ sessions'[api'.last.name] = sessions[api'.last.name]
              /\ api'.agent_type = api.agent_type]_vars

C24_CreatedSessionListed ==
    [][(/\ IsApiCall
        /\ api'.last.op = "create"
        /\ api'.last.code \notin {"MISSING_NAME", "INVALID_NAME", "INVALID_HOST",
                                  "ALREADY_EXISTS", "TMUX_CREATE_FAILED"})
           => /\ api'.last.status = 201
              /\ \E e \in list_sessions' :
                    /\ e.name = api'.last.name
                    /\ e.status = "active"
                    /\ "message_count" \in DOMAIN e
                    /\ e.message_count = 0]_vars

(***************************************************************************)
(* Rate limiter                                                            *)
(***************************************************************************)
\* the configured capacity and window of a bucket's path prefix
LimitOf(key) ==
    LET hits == {i \in 1..Len(_RATE_LIMITS) : _RATE_LIMITS[i].prefix = key[2]}
    IN IF hits = {} THEN _DEFAULT_LIMIT
       ELSE _RATE_LIMITS[CHOOSE i \in hits : TRUE]

\* the tokens (times the window) a bucket offers at the present instant:
\* what it held at its last refill plus C/W per second since, at most C
Available(key) ==
    LET C == LimitOf(key).max_req
        W == LimitOf(key).window
        b == rate._buckets[key]
    IN IF b = NoBucket THEN C * W
       ELSE Min(C * W, b.tokens + (rate.now - b.last_refill) * C)

TokensInRange ==
    \A key \in RateKeys :
        rate._buckets[key] # NoBucket =>
            /\ rate._buckets[key].tokens >= 0
            /\ rate._buckets[key].tokens
                  <= LimitOf(key).max_req * LimitOf(key).window

AdmissionsBounded ==
    \A key \in RateKeys :
        rate.now >= rate.since =>
            rate.admitted[key] * LimitOf(key).window
               <= LimitOf(key).max_req * LimitOf(key).window
                    + (rate.now - rate.since) * LimitOf(key).max_req

\* C25: in every bucket of capacity C and window W the token count stays in
\* [0, C]; a request is passed on, at the cost of one token, exactly when the
\* bucket holds at least one token after refilling at C/W per second, and is
\* answered 429 otherwise; the requests admitted from any instant on number
\* at most C + T*C/W after T seconds.
C25_TokenBucket ==
    /\ [](TokensInRange /\ AdmissionsBounded)
    /\ [][\A xff \in ForwardedFor, remote \in Peers, path \in RatePaths :
            (RateRequest(xff, remote, path) /\ ~SkipsRateLimit(path)) =>
                LET key == <<_client_ip(xff, remote), _get_limit(path).prefix>>
                    W == LimitOf(key).window
                IN /\ (rate'.last.status # 429) <=> (Available(key) >= W)
                   /\ rate'._buckets[key].tokens =
                         IF Available(key) >= W
                         THEN Available(key) - W ELSE Available(key)
                   /\ rate'.last.status = 429 =>
                         rate'._buckets = [rate._buckets EXCEPT ![key] =
                                              rate'._buckets[key]]]_vars

\* a bucket was emptied, refilled in part, admitted more than its capacity
\* and then turned a request down
C25_Witness ==
    /\ rate.last.status = 429
    /\ \E key \in RateKeys :
          /\ rate.admitted[key] > LimitOf(key).max_req
          /\ rate._buckets[key].tokens > 0
          /\ rate._buckets[key].tokens < LimitOf(key).window

(***************************************************************************)
(* Settings API                                                            *)
(***************************************************************************)
\* C26: a GET /api/settings that follows PUT /api/settings {k: v}, k a
\* user-writable key, returns settings[k] = v.
C26_PutThenGet ==
    [][(/\ GetSettings
        /\ settings.put.key \in WRITABLE_KEYS)
           => settings'.got[settings.put.key] = settings.put.value]_vars

(***************************************************************************)
(* Command queue: cancels and drains running together                      *)
(***************************************************************************)
\* C27: once a cancel request for an entry has been answered 200, the entry
\* is not sent to its session again and its status is and stays cancelled,
\* whatever drains run alongside.
C27_CancelledNeverSent ==
    [][\A id \in 1..Len(cmds) :
          [id |-> id, code |-> 200] \in cancel.responses
             => /\ sent'[id] = sent[id]
                /\ cmds[id].status = "cancelled"
                /\ cmds'[id].status = "cancelled"]_vars

\* C28: every entry is sent to its session at most once, and an entry that
\* is completed or failed keeps that status, whatever drains of the poller
\* and of manual execute requests run alongside.
C28_SentAtMostOnce ==
    /\ [](\A id \in 1..Len(sent) : sent[id] <= 1)
    /\ [][\A id \in 1..Len(cmds) :
             cmds[id].status \in {"completed", "failed"}
                => cmds'[id].status = cmds[id].status]_vars

(***************************************************************************)
(* Closing a session: delete requests and reconciler ticks together        *)
(***************************************************************************)
\* session.closed events published for n, by whichever publisher
ClosedEvents(log, n) ==
    {i \in 1..Len(log) : log[i].type = "session.closed" /\ log[i].name = n}

\* C29: with delete requests and reconciler ticks interleaved, a row that is
\* closed is never written again (its closed_at is set once) and at most one
\* session.closed event is published for a session.
C29_ClosedOnce ==
    /\ [](\A n \in ReconNames : Cardinality(ClosedEvents(published, n)) <= 1)
    /\ [][\A n \in ReconNames :
             StatusOf(sessions, n) = "closed" => sessions'[n] = sessions[n]]_vars

(***************************************************************************)
(* Creating a session while the reconciler runs                            *)
(***************************************************************************)
\* session.created events published for n, by whichever publisher
AllCreatedEvents(log, n) ==
    {i \in 1..Len(log) : log[i].type = "session.created" /\ log[i].name = n}

\* C30: a POST /api/sessions for a name N with no stored row, valid in name
\* and host, is answered 201 also when reconciler ticks run around it;
\* afterwards N has a row and exactly one session.created event for N has
\* been published.
C30_CreateAlongsideReconciler ==
    [][(/\ IsApiCall
        /\ api'.last.op = "create"
        /\ api'.last.name \in ApiNames
        /\ sessions[api'.last.name] = NoRow
        /\ api'.last.code \notin {"MISSING_NAME", "INVALID_NAME", "INVALID_HOST"})
           => /\ api'.last.status = 201
              /\ sessions'[api'.last.name] # NoRow
              /\ Cardinality(AllCreatedEvents(published', api'.last.name)) = 1]_vars

(***************************************************************************)
(* Reconciler: what counts as a discovery                                  *)
(***************************************************************************)
\* C31: the reconciler publishes session.created for a name, and appends
\* its audit row, only in a tick that inserted the name's row, that is for
\* a name that had no stored row when the tick began; a live name with a
\* stored row in any status, closed included, triggers neither.
C31_CreatedOnlyWhenInserted ==
    [][(/\ IsPollStep
        /\ recon.pc = "created"
        /\ \/ published' # published
           \/ events_tbl' # events_tbl)
           => Head(recon.todo) \in recon.fresh]_vars

(***************************************************************************)
(* Session API: recreating a closed session                                *)
(***************************************************************************)
\* C32: a POST /api/sessions for a name whose stored row is closed (valid
\* in name and host) succeeds with 201 and leaves the row with status
\* active.
C32_ClosedNameRecreated ==
    [][(/\ IsApiCall
        /\ api'.last.op = "create"
        /\ api'.last.name \in ApiNames
        /\ StatusOf(sessions, api'.last.name) = "closed"
        /\ api'.last.code \notin {"INVALID_NAME", "INVALID_HOST"})
           => /\ api'.last.status = 201
              /\ StatusOf(sessions', api'.last.name) = "active"]_vars

(***************************************************************************)
(* Send-keys protocol: sends running together                              *)
(***************************************************************************)
\* C33: between the text invocation of one send and its Enter, no
\* invocation of another send to the session is issued.
C33_SendsDoNotInterleave ==
    \A id \in 1..Len(send.results) :
        \A t \in TextOf(id), e \in EnterOf(id) :
            \A i \in 1..Len(send.log) :
                (t < i /\ i < e) => send.log[i].id = id

(***************************************************************************)
(* Command queue: the feature flag                                         *)
(***************************************************************************)
\* C34: while enable_command_queue is off no entry is sent to a session,
\* and a pending entry stays pending or becomes cancelled, whether the
\* poller sees a reset or the manual execute endpoint is called.
C34_FlagOffNothingSent ==
    [][~queue_cfg.enable_command_queue =>
          /\ \A id \in 1..Len(sent) : sent'[id] = sent[id]
          /\ \A id \in 1..Len(cmds) :
                cmds[id].status = "pending"
                   => cmds'[id].status \in {"pending", "cancelled"}]_vars

(***************************************************************************)
(* One utterance, relayed and pulled                                       *)
(***************************************************************************)
\* the stored rows that come from utterance u, by either path
RowsOf(tbl, u) ==
    {i \in 1..Len(tbl) :
        /\ tbl[i].session_name = "hook"
        /\ tbl[i].source = u.platform
        /\ tbl[i].source_id \in {RelayedId(u), u.id}}

\* C35: an utterance that is relayed by its bridge and pulled from its
\* thread by the sync worker is stored as one message row, on Discord and
\* on Slack: no utterance ever has two rows, and a pull that has handled an
\* utterance leaves exactly one.
C35_RelayedAndPulledOnce ==
    /\ [](\A u \in Utterances : Cardinality(RowsOf(messages, u)) <= 1)
    /\ [][\A t \in IngestTasks, u \in Utterances :
            (/\ ingest[t].pc = "batch"
             /\ ingest[t].rest # <<>>
             /\ Head(ingest[t].rest) = PulledMsg(u)
             /\ ingest[t].src = u.platform
             /\ ingest'[t] # ingest[t])
                => Cardinality(RowsOf(messages', u)) = 1]_vars

(***************************************************************************)
(* Transcript tail                                                         *)
(***************************************************************************)
\* the stored rows of session n that come from transcript line l
JsonlRowsOf(tbl, n, l) ==
    {i \in 1..Len(tbl) :
        /\ tbl[i].session_name = n
        /\ tbl[i].source = "jsonl"
        /\ tbl[i].source_id = LineHash16(l)}

\* C36: storing a message for one session never makes a message of another
\* session be dropped as a duplicate: after a transcript pass for session n,
\* every message line the pass parsed has a row of session n, whatever the
\* other session has ingested from the file they both tail.
C36_NoCrossSessionDuplicate ==
    [][\A n \in JsonlSessions :
         JsonlIngest(n) =>
            \A i \in 1..Len(jsonl'.last.new_lines) :
               LET l == jsonl'.last.new_lines[i]
               IN (l.type \in {"user", "assistant"} /\ Strip(l.text) # <<>>)
                     => JsonlRowsOf(messages', n, l) # {}]_vars

RunningHandlers == {c \in WsHandlers : handlers[c].pc \in {"hello", "open"}}

\* C37: when websocket_handler has returned, by a normal close, a socket
\* error or a failed initial heartbeat, its subscriber id is off the bus and
\* its socket is out of ws_clients; so the bus subscribers and the tracked
\* sockets are each as many as the handlers still running.
C37_HandlerCleanup ==
    /\ \A c \in WsHandlers :
          handlers[c].pc = "returned"
             => /\ handlers[c].sub_id \notin DOMAIN subscribers
                /\ c \notin ws_clients
    /\ Cardinality(DOMAIN subscribers) = Cardinality(RunningHandlers)
    /\ Cardinality(ws_clients) = Cardinality(RunningHandlers)

(***************************************************************************)
(* Bridge background tasks                                                 *)
(***************************************************************************)
\* C38: every background task a bridge spawns (message handlers, heartbeat,
\* capture tasks, dashboard webhook emissions) is in the tracked set from
\* its creation until it completes: the set is the set of spawned tasks
\* that have not finished.
C38_TrackedIsUnfinished ==
    tasks._background_tasks =
        {i \in 1..Len(tasks.spawned) : ~tasks.spawned[i].done}

(***************************************************************************)
(* Worker loops                                                            *)
(***************************************************************************)
\* C40: an exception raised inside one cycle of a worker loop (reconciler,
\* message sync, transcript tail, usage poll) never ends the loop: no loop
\* is ever over, a failed cycle is followed by the wait, and after a failed
\* cycle the worker eventually runs its next cycle.
C40_LoopSurvivesFailure ==
    /\ [](\A w \in Workers : workers[w].pc # "ended")
    /\ [][\A w \in Workers :
            (workers[w].pc = "cycle" /\ workers'[w].last = "raised"
             /\ workers'[w] # workers[w])
                => workers'[w].pc = "sleep"]_vars
    /\ \A w \in Workers :
          (workers[w].pc = "sleep" /\ workers[w].last = "raised")
             ~> (workers[w].pc = "cycle")

\* every worker is in a cycle that follows a failed one
C40_Witness ==
    \A w \in Workers : workers[w].pc = "cycle" /\ workers[w].last = "raised"

====
